---- MODULE Spec2Model ----
(***************************************************************************)
(* A state-machine model of the br-lsp language server core:               *)
(*   - the workspace symbol index (src/src/workspace.rs),                   *)
(*   - the document store, the notification handlers and the debounced      *)
(*     diagnostics tasks (src/src/backend.rs),                              *)
(*   - the async read-write locks the handlers take.                        *)
(* Function names are sequences of one-character strings so that            *)
(* to_ascii_lowercase is computed character by character.                   *)
(***************************************************************************)
EXTENDS Integers, Sequences, FiniteSets, TLC

\* ------------------------------------------------------------------------
\* Bounds of the model
\* ------------------------------------------------------------------------
MaxIndexEntries == 3

MaxDefsPerCall == 2

\* ------------------------------------------------------------------------
\* Values
\* ------------------------------------------------------------------------
UriA == "file:///ws/a.brs"

UriLib == "file:///ws/lib.brs"

UriLay == "file:///ws/filelay/cust.lay"

BrUris == {UriA, UriLib}

AllUris == {UriA, UriLib, UriLay}

NoDef == [none |-> TRUE]

NoLink == "<none>"

\* ------------------------------------------------------------------------
\* Generic sequence helpers
\* ------------------------------------------------------------------------
RECURSIVE SeqOfLen(_, _)
SeqOfLen(S, n) ==
    IF n = 0 THEN {<<>>}
    ELSE {Append(s, x) : s \in SeqOfLen(S, n - 1), x \in S}

SeqsUpTo(S, n) == UNION {SeqOfLen(S, k) : k \in 0..n}

Range(s) == {s[i] : i \in DOMAIN s}

\* ------------------------------------------------------------------------
\* src/src/workspace.rs : WorkspaceIndex
\* ------------------------------------------------------------------------
UpperToLower ==
    [c \in {"A", "B", "F", "N"} |->
        CASE c = "A" -> "a" [] c = "B" -> "b" [] c = "F" -> "f" [] c = "N" -> "n"]

\* str::to_ascii_lowercase : upper-case ASCII letters are mapped, the rest kept
to_ascii_lowercase(s) ==
    [i \in DOMAIN s |-> IF s[i] \in DOMAIN UpperToLower THEN UpperToLower[s[i]] ELSE s[i]]

\* extract::FunctionDef, restricted to the fields the index reads
FunctionDef(name, is_library, is_import_only) ==
    [name |-> name, is_library |-> is_library, is_import_only |-> is_import_only]

IndexedFunctionDef(uri, def) == [uri |-> uri, def |-> def]

\* WorkspaceIndex::new : an empty HashMap
EmptyIndex == [k \in {} |-> <<>>]

\* the body of the loop of add_file: entry(key).or_default().push(..)
push_entry(idx, uri, def) ==
    LET key == to_ascii_lowercase(def.name)
        old == IF key \in DOMAIN idx THEN idx[key] ELSE <<>>
    IN  [k \in DOMAIN idx \cup {key} |->
            IF k = key THEN Append(old, IndexedFunctionDef(uri, def)) ELSE idx[k]]

RECURSIVE add_file(_, _, _)
add_file(idx, uri, defs) ==
    IF defs = <<>> THEN idx
    ELSE add_file(push_entry(idx, uri, Head(defs)), uri, Tail(defs))

\* a retain that drops nothing
retain_all(entries, uri) == entries

\* the inner retain of remove_file
retain_other(entries, uri) == SelectSeq(entries, LAMBDA e : e.uri # uri)

remove_file(idx, uri) ==
    LET kept == {k \in DOMAIN idx : retain_other(idx[k], uri) # <<>>}
    IN  [k \in kept |-> retain_other(idx[k], uri)]

update_file(idx, uri, defs) == add_file(remove_file(idx, uri), uri, defs)

lookup(idx, name) ==
    LET key == to_ascii_lowercase(name)
    IN  IF key \in DOMAIN idx THEN idx[key] ELSE <<>>

\* a sort key that does not look at the current URI
priority_key_not_local(d, current_uri) ==
    CASE ~d.def.is_import_only /\ d.def.is_library -> 1
      [] ~d.def.is_import_only /\ ~d.def.is_library -> 2
      [] OTHER -> 3

\* the sort key of lookup_prioritized
priority_key(d, current_uri) ==
    LET is_local == d.uri = current_uri
    IN  CASE is_local /\ ~d.def.is_import_only -> 0
          [] ~d.def.is_import_only /\ d.def.is_library -> 1
          [] ~d.def.is_import_only /\ ~d.def.is_library -> 2
          [] OTHER -> 3

\* sort_by_key is a stable sort: entries of equal key keep their order
lookup_prioritized(idx, name, current_uri) ==
    LET all == lookup(idx, name)
        bucket(p) == SelectSeq(all, LAMBDA d : priority_key(d, current_uri) = p)
    IN  bucket(0) \o bucket(1) \o bucket(2) \o bucket(3)

lookup_best(idx, name, current_uri) ==
    LET sorted == lookup_prioritized(idx, name, current_uri)
    IN  IF sorted = <<>> THEN NoDef ELSE Head(sorted)

\* ------------------------------------------------------------------------
\* Documents: a text is a sequence of one-character strings.  The grammar is
\* opaque to the server; here every character is one statement:
\*   "d"  a definition   def fnA(..)          (name <<"f","n","A">>)
\*   "c"  a call         let x = FNa(..)      (name <<"F","N","a">>))
\*   "\n" a line break
\* ------------------------------------------------------------------------
DocUris == {UriA, UriLay}

NoDoc == [absent |-> TRUE]

NoTree == [no_tree |-> TRUE]

NoIndex == [no_index |-> TRUE]

\* Option<&WorkspaceIndex>
SomeIndex(idx) == [some |-> idx]

is_some(index) == "some" \in DOMAIN index

NoRange == <<>>

DIAGNOSTICS_DEBOUNCE_MS == 150

NameDefined == <<"f", "n", "A">>

NameCalled == <<"F", "N", "a">>

\* ropey::Rope::line_to_char : the char offset of the first char of `line`
RECURSIVE line_to_char(_, _)
line_to_char(rope, line) ==
    IF line = 0 THEN 0
    ELSE LET nl == {i \in DOMAIN rope : rope[i] = "\n"}
         IN  IF nl = {} THEN Len(rope)
             ELSE LET first == CHOOSE i \in nl : \A j \in nl : i <= j
                  IN  first + line_to_char(SubSeq(rope, first + 1, Len(rope)), line - 1)

\* Rope::remove + Rope::insert, String::replace_range
splice(text, start, end, new_text) ==
    SubSeq(text, 1, start) \o new_text \o SubSeq(text, end + 1, Len(text))

\* an end position whose column is never reset by a newline
new_end_position_same_line(line, col, new_text) ==
    <<line + Cardinality({i \in DOMAIN new_text : new_text[i] = "\n"}), col + Len(new_text)>>

\* the loop over new_text of apply_change
RECURSIVE new_end_position(_, _, _)
new_end_position(line, col, new_text) ==
    IF new_text = <<>> THEN <<line, col>>
    ELSE IF Head(new_text) = "\n" THEN new_end_position(line + 1, 0, Tail(new_text))
         ELSE new_end_position(line, col + 1, Tail(new_text))

\* a byte offset that lags one behind the char offset
char_to_byte_lagging(char_idx) == IF char_idx > 0 THEN char_idx - 1 ELSE 0

\* let start_byte = start_char; // ASCII: 1 byte per char
char_to_byte(char_idx) == char_idx

\* backend.rs apply_change: range is <<start line, start col, end line, end col>>
apply_change(rope, source, range, new_text) ==
    LET start_char == line_to_char(rope, range[1]) + range[2]
        end_char == line_to_char(rope, range[3]) + range[4]
        start_byte == char_to_byte(start_char)
        old_end_byte == char_to_byte(end_char)
    IN  [rope |-> splice(rope, start_char, end_char, new_text),
         source |-> splice(source, start_byte, old_end_byte, new_text),
         edit |-> [start_byte |-> start_byte,
                   old_end_byte |-> old_end_byte,
                   new_end_byte |-> start_byte + Len(new_text),
                   start_position |-> <<range[1], range[2]>>,
                   old_end_position |-> <<range[3], range[4]>>,
                   new_end_position |-> new_end_position(range[1], range[2], new_text)]]

\* the client's contract: a range lies inside the text it edits
range_valid(text, range) ==
    /\ line_to_char(text, range[1]) + range[2] <= line_to_char(text, range[3]) + range[4]
    /\ line_to_char(text, range[3]) + range[4] <= Len(text)

\* parser::parse : a tree remembers the source it was parsed from
parse(source, ok) == IF ok THEN [src |-> source] ELSE NoTree

\* the mark Tree::edit leaves on what an edit touched
Changed == "?"

\* parser::parse with an old tree: tree-sitter reuses what the old tree holds
\* at the places that are not marked as changed and reads the source elsewhere
reparse(source, old_tree, ok) ==
    IF old_tree = NoTree THEN parse(source, ok)
    ELSE IF ~ok THEN NoTree
    ELSE [src |-> [i \in 1..Len(source) |->
                      IF i <= Len(old_tree.src) /\ old_tree.src[i] # Changed
                      THEN old_tree.src[i] ELSE source[i]]]

\* Node::to_sexp of the root: the kinds of the nodes, without their text
to_sexp(tree) ==
    LET nodes == SelectSeq(tree.src, LAMBDA ch : ch # "\n")
    IN  [i \in DOMAIN nodes |-> IF nodes[i] = "d" THEN "(def_statement)"
                                ELSE IF nodes[i] = "c" THEN "(function_call)"
                                ELSE "(ERROR)"]

\* extract::extract_definitions : one FunctionDef per def statement, in order
extract_definitions(tree, source) ==
    LET ds == SelectSeq(tree.src, LAMBDA ch : ch = "d")
    IN  [i \in DOMAIN ds |-> FunctionDef(NameDefined, FALSE, FALSE)]

\* the user-function calls of a tree
user_function_calls(tree) == IF "c" \in Range(tree.src) THEN {NameCalled} ELSE {}

\* diagnostics::check_undefined_functions
check_undefined_functions(tree, source, index) ==
    LET local_names == {to_ascii_lowercase(d.name) : d \in Range(extract_definitions(tree, source))}
    IN  {[code |-> "undefined-function", name |-> n] :
            n \in {c \in user_function_calls(tree) :
                     /\ to_ascii_lowercase(c) \notin local_names
                     /\ lookup(index, to_ascii_lowercase(c)) = <<>>}}

\* diagnostics::collect_function_diagnostics, the duplicate-function warning
collect_function_diagnostics(tree, source) ==
    IF Len(extract_definitions(tree, source)) > 1
    THEN {[code |-> "duplicate-function", name |-> NameDefined]}
    ELSE {}

\* Backend::collect_all_diagnostics.  The texts of the model hold no syntax
\* error and no variable, so the syntax and unused-variable passes add nothing.
collect_all_diagnostics(tree, source, config, index) ==
    LET syn == {}
        fun == IF config.functions THEN collect_function_diagnostics(tree, source) ELSE {}
        unused == {}
        undef == IF config.undefined_functions /\ is_some(index)
                 THEN check_undefined_functions(tree, source, index.some)
                 ELSE {}
    IN  syn \cup fun \cup unused \cup undef

\* layout::parse : a layout needs a header line with a non-empty path
layout_parse(source) ==
    IF \E i \in DOMAIN source : source[i] # "\n" THEN [path |-> source] ELSE NoDoc

DocumentState(kind, rope, source, tree) ==
    [kind |-> kind, rope |-> rope, source |-> source, tree |-> tree]

\* DiagnosticsConfig::default
DefaultConfig ==
    [syntax |-> TRUE, functions |-> TRUE, undefined_functions |-> TRUE,
     unused_variables |-> TRUE]

\* ------------------------------------------------------------------------
\* Bounds and inputs of the server model
\* ------------------------------------------------------------------------
MaxNotifications == 3

MaxTextLen == 2

TickMs == DIAGNOSTICS_DEBOUNCE_MS \div 2

OpenTexts == {<<"c">>, <<"d">>}

LanguageIds == {"br", "lay"}

\* TextDocumentContentChangeEvent: a range (or none) and a text
ChangePool ==
    {[range |-> NoRange, text |-> <<"d">>],
     [range |-> <<0, 0, 0, 1>>, text |-> <<"c">>],
     [range |-> <<0, 0, 0, 0>>, text |-> <<"d">>]}

\* what Url::path tells did_change and is_layout_file about a URI
UriPath ==
    [u \in {UriA, UriLib, UriLay} |->
        IF u = UriLay THEN [ext |-> "lay", parent |-> "filelay"]
        ELSE [ext |-> "brs", parent |-> "ws"]]

\* ------------------------------------------------------------------------
\* State
\* ------------------------------------------------------------------------
VARIABLES
    definitions,            \* WorkspaceIndex.definitions
    accum,                  \* history: per URI, the defs added since its last remove/update
    latest,                 \* history: per URI, the defs of its latest add/update call
    document_map,           \* Backend.document_map
    layout_index,           \* LayoutIndex.layouts
    indexing_complete,      \* Backend.indexing_complete
    diagnostics_generation, \* Backend.diagnostics_generation
    diagnostics_config,     \* Backend.diagnostics_config
    tasks,                  \* the handler and spawned tasks that are suspended at an await
    published,              \* history: the publish_diagnostics calls, in call order
    notifications,          \* history: how many notifications have arrived
    hist,                   \* history: per URI, what the client has sent
    locks,                  \* the tokio RwLocks: who holds each and who waits, in order
    handlers,               \* the lock programs of the running tasks
    args,                   \* the arguments of the call of a pure function under analysis
    result                  \* what that call returned

indexVars == <<definitions, accum, latest>>

serverVars ==
    <<document_map, layout_index, indexing_complete, diagnostics_generation,
      diagnostics_config, tasks, published, notifications, hist>>

lockVars == <<locks, handlers>>

callVars == <<args, result>>

vars == <<indexVars, serverVars, lockVars, callVars>>

\* no call of a pure function is under analysis
NoCall == [fn |-> "none"]

\* HashMap / DashMap insert and remove
MapInsert(m, k, v) == [x \in DOMAIN m \cup {k} |-> IF x = k THEN v ELSE m[x]]

MapRemove(m, k) == [x \in DOMAIN m \ {k} |-> m[x]]

\* a suspended task: its kind, where it is suspended, and its locals
Task(kind, pc, uri, text, tree, gen, timer) ==
    [kind |-> kind, pc |-> pc, uri |-> uri, text |-> text, tree |-> tree,
     gen |-> gen, timer |-> timer, todo |-> <<>>, seen_open |-> FALSE]

NewId == CHOOSE i \in 1..(MaxNotifications + 2) :
            /\ i \notin DOMAIN tasks
            /\ \A j \in 1..(i - 1) : j \in DOMAIN tasks

Spawned(task) == [i \in DOMAIN tasks \cup {NewId} |-> IF i = NewId THEN task ELSE tasks[i]]

Finished(t) == [i \in DOMAIN tasks \ {t} |-> tasks[i]]

Moved(t, task) == [tasks EXCEPT ![t] = task]

\* one publish_diagnostics call: what is sent, whether the index and the
\* undefinedFunctions flag were given to collect_all_diagnostics, and whether
\* indexing was complete when the call was made
Publication(uri, origin, gen, source, diags, with_index) ==
    [uri |-> uri, origin |-> origin, gen |-> gen, source |-> source,
     diags |-> diags, with_index |-> with_index,
     undef_cfg |-> diagnostics_config.undefined_functions,
     complete |-> indexing_complete]

\* no lock is held and nobody waits
LockNames == {"folders", "config", "index", "layout", "document_map"}

NoLocks == [l \in LockNames |-> [holders |-> {}, queue |-> <<>>]]

HistInit ==
    [open |-> FALSE, closed |-> FALSE, expected |-> <<>>,
     arrN |-> 0, arrOk |-> TRUE, sinceArr |-> DIAGNOSTICS_DEBOUNCE_MS,
     schedN |-> 0, schedOk |-> TRUE, sinceSched |-> DIAGNOSTICS_DEBOUNCE_MS,
     treeLost |-> FALSE, raced |-> FALSE, owed |-> FALSE, snapOwed |-> FALSE]

\* the server after construction
InitServer ==
    /\ definitions = EmptyIndex
    /\ accum = [u \in AllUris |-> <<>>]
    /\ latest = [u \in AllUris |-> <<>>]
    /\ document_map = [u \in {} |-> NoDoc]
    /\ layout_index = [u \in {} |-> NoDoc]
    /\ indexing_complete = FALSE
    /\ diagnostics_generation = [u \in {} |-> 0]
    /\ diagnostics_config = DefaultConfig
    /\ tasks = [i \in {} |-> NoDoc]
    /\ published = <<>>
    /\ notifications = 0
    /\ hist = [u \in DocUris |-> HistInit]
    /\ locks = NoLocks
    /\ handlers = [i \in {} |-> NoDoc]

Init ==
    /\ InitServer
    /\ args = NoCall
    /\ result = NoCall

\* a pure function is called with args and returns
Returns(fn, value) ==
    /\ args.fn = fn
    /\ result = NoCall
    /\ result' = [fn |-> fn, value |-> value]
    /\ UNCHANGED <<indexVars, serverVars, lockVars, args>>

\* ------------------------------------------------------------------------
\* History bookkeeping (no effect on the program state)
\* ------------------------------------------------------------------------
Saturate(ms) == IF ms > DIAGNOSTICS_DEBOUNCE_MS THEN DIAGNOSTICS_DEBOUNCE_MS ELSE ms

\* the text a client holds after sending the changes of one notification
RECURSIVE client_apply(_, _)
client_apply(text, changes) ==
    IF changes = <<>> THEN text
    ELSE LET ch == Head(changes)
         IN  client_apply(IF ch.range = NoRange THEN ch.text
                          ELSE apply_change(text, text, ch.range, ch.text).source,
                          Tail(changes))

RECURSIVE changes_valid(_, _)
changes_valid(text, changes) ==
    IF changes = <<>> THEN TRUE
    ELSE LET ch == Head(changes)
         IN  /\ ch.range # NoRange => range_valid(text, ch.range)
             /\ Len(client_apply(text, <<ch>>)) <= MaxTextLen
             /\ changes_valid(client_apply(text, <<ch>>), Tail(changes))

HistOpen(h, text, lost) ==
    [h EXCEPT !.open = TRUE, !.expected = text, !.treeLost = h.treeLost \/ lost]

HistTreeLost(h) == [h EXCEPT !.treeLost = TRUE]

HistChange(h, changes, lost, absent) ==
    [h EXCEPT !.expected = client_apply(h.expected, changes),
              !.arrN = h.arrN + 1,
              !.arrOk = h.arrOk /\ (h.arrN = 0 \/ h.sinceArr < DIAGNOSTICS_DEBOUNCE_MS),
              !.sinceArr = 0,
              !.treeLost = h.treeLost \/ lost,
              !.raced = h.raced \/ absent]

HistSchedule(h) ==
    [h EXCEPT !.schedN = h.schedN + 1,
              !.schedOk = h.schedOk /\ (h.schedN = 0 \/ h.sinceSched < DIAGNOSTICS_DEBOUNCE_MS),
              !.sinceSched = 0]

HistClose(h) == [h EXCEPT !.open = FALSE, !.closed = TRUE]

\* what the index was last told about a URI
IndexUpdated(u, defs) ==
    /\ accum' = [accum EXCEPT ![u] = defs]
    /\ latest' = [latest EXCEPT ![u] = defs]

\* this step stores a version of document u that has no syntax tree
StoredWithoutTree(u) ==
    /\ u \in DOMAIN document_map'
    /\ document_map'[u].tree = NoTree
    /\ (u \notin DOMAIN document_map \/ document_map'[u] # document_map[u])

HistTick(h) ==
    [h EXCEPT !.sinceArr = Saturate(h.sinceArr + TickMs),
              !.sinceSched = Saturate(h.sinceSched + TickMs)]

\* ------------------------------------------------------------------------
\* backend.rs : on_change, did_open
\* ------------------------------------------------------------------------
\* on_change up to its first await.  A layout without header and a BR text
\* without tree reach document_map.insert and publish_diagnostics at once.
OnChangeStart(u, text, lang, ok) ==
    LET kind == IF lang = "lay" THEN "Layout" ELSE "Br"
        tree == parse(text, ok)
        suspended == IF kind = "Layout" THEN layout_parse(text) # NoDoc ELSE tree # NoTree
    IN  IF suspended
        THEN /\ tasks' = Spawned(Task("on_change",
                                      IF kind = "Layout" THEN "oc_layout" ELSE "oc_index",
                                      u, text, IF kind = "Layout" THEN NoTree ELSE tree, 0, 0))
             /\ UNCHANGED <<document_map, published>>
        ELSE /\ document_map' = MapInsert(document_map, u, DocumentState(kind, text, text, NoTree))
             /\ published' = Append(published, Publication(u, "on_change", 0, text, {}, FALSE))
             /\ UNCHANGED tasks

DidOpen(u, text, lang, ok) ==
    /\ UNCHANGED <<lockVars, callVars>>
    /\ notifications < MaxNotifications
    /\ ~hist[u].open
    /\ OnChangeStart(u, text, lang, ok)
    /\ notifications' = notifications + 1
    /\ hist' = [hist EXCEPT ![u] = HistOpen(@, text, StoredWithoutTree(u))]
    /\ UNCHANGED <<indexVars, layout_index, indexing_complete, diagnostics_generation,
                   diagnostics_config>>

\* on_change after workspace_index.write().await : index.update_file
OnChangeIndex(t) ==
    /\ UNCHANGED <<lockVars, callVars>>
    /\ t \in DOMAIN tasks
    /\ tasks[t].pc = "oc_index"
    /\ definitions' = update_file(definitions, tasks[t].uri,
                                  extract_definitions(tasks[t].tree, tasks[t].text))
    /\ IndexUpdated(tasks[t].uri, extract_definitions(tasks[t].tree, tasks[t].text))
    /\ tasks' = Moved(t, [tasks[t] EXCEPT !.pc = "oc_diag"])
    /\ UNCHANGED <<document_map, layout_index, indexing_complete,
                   diagnostics_generation, diagnostics_config, published, notifications, hist>>

\* the index handed over whether or not the scan has finished
IndexAlways == SomeIndex(definitions)

\* the index handed to collect_all_diagnostics: Some only once indexing is complete
IndexIfComplete == IF indexing_complete THEN SomeIndex(definitions) ELSE NoIndex

\* on_change after diagnostics_config.read().await and workspace_index.read().await
OnChangeDiagnose(t) ==
    /\ UNCHANGED <<lockVars, callVars>>
    /\ t \in DOMAIN tasks
    /\ tasks[t].pc = "oc_diag"
    /\ LET me == tasks[t]
           diags == collect_all_diagnostics(me.tree, me.text, diagnostics_config, IndexIfComplete)
       IN  /\ document_map' = MapInsert(document_map, me.uri,
                                        DocumentState("Br", me.text, me.text, me.tree))
           /\ published' = Append(published,
                  Publication(me.uri, "on_change", 0, me.text, diags, is_some(IndexIfComplete)))
    /\ tasks' = Finished(t)
    /\ UNCHANGED <<indexVars, layout_index, indexing_complete, diagnostics_generation,
                   diagnostics_config, notifications, hist>>

\* on_change of a layout after layout_index.write().await
OnChangeLayout(t) ==
    /\ UNCHANGED <<lockVars, callVars>>
    /\ t \in DOMAIN tasks
    /\ tasks[t].pc = "oc_layout"
    /\ LET me == tasks[t]
       IN  /\ layout_index' = MapInsert(layout_index, me.uri, layout_parse(me.text))
           /\ document_map' = MapInsert(document_map, me.uri,
                                        DocumentState("Layout", me.text, me.text, NoTree))
           /\ published' = Append(published, Publication(me.uri, "on_change", 0, me.text, {}, FALSE))
           /\ hist' = IF me.uri \in DOMAIN hist
                      THEN [hist EXCEPT ![me.uri] = HistTreeLost(@)]
                      ELSE hist
    /\ tasks' = Finished(t)
    /\ UNCHANGED <<indexVars, indexing_complete, diagnostics_generation,
                   diagnostics_config, notifications>>

\* ------------------------------------------------------------------------
\* backend.rs : did_change, schedule_diagnostics, did_close
\* ------------------------------------------------------------------------
\* a tree that was not told about the edit
tree_edit_skipped(tree, edit) == tree

\* tree_sitter::Tree::edit : the nodes behind the edit move by the change of
\* length, the nodes inside the edited range are marked as changed
tree_edit(tree, edit) ==
    [src |-> SubSeq(tree.src, 1, edit.start_byte)
             \o [i \in 1..(edit.new_end_byte - edit.start_byte) |-> Changed]
             \o SubSeq(tree.src, edit.old_end_byte + 1, Len(tree.src))]

\* a full replacement that keeps a tree for the new text instead of dropping it
RECURSIVE apply_content_changes_keeps_tree(_, _)
apply_content_changes_keeps_tree(doc, changes) ==
    IF changes = <<>> THEN doc
    ELSE LET ch == Head(changes)
             r == apply_change(doc.rope, doc.source, ch.range, ch.text)
             next == IF ch.range # NoRange
                     THEN [doc EXCEPT !.rope = r.rope, !.source = r.source,
                                      !.tree = IF doc.tree = NoTree THEN NoTree
                                               ELSE tree_edit(doc.tree, r.edit)]
                     ELSE [doc EXCEPT !.rope = ch.text, !.source = ch.text,
                                      !.tree = IF doc.tree = NoTree THEN NoTree
                                               ELSE [src |-> ch.text]]
         IN  apply_content_changes_keeps_tree(next, Tail(changes))

\* the loop over params.content_changes of did_change
RECURSIVE apply_content_changes(_, _)
apply_content_changes(doc, changes) ==
    IF changes = <<>> THEN doc
    ELSE LET ch == Head(changes)
             r == apply_change(doc.rope, doc.source, ch.range, ch.text)
             next == IF ch.range # NoRange
                     THEN [doc EXCEPT !.rope = r.rope, !.source = r.source,
                                      !.tree = IF doc.tree = NoTree THEN NoTree
                                               ELSE tree_edit(doc.tree, r.edit)]
                     ELSE [doc EXCEPT !.rope = ch.text, !.source = ch.text, !.tree = NoTree]
         IN  apply_content_changes(next, Tail(changes))

\* the language did_change infers for a document that is not in the map
inferred_language(u) ==
    IF UriPath[u].ext = "lay" \/ UriPath[u].parent = "filelay" THEN "lay" ELSE "br"

\* did_change with the RefMut of the entry: the edits and the reparse
did_change_document(old, changes, ok) ==
    LET edited == apply_content_changes(old, changes)
    IN  IF old.kind = "Layout" THEN [edited EXCEPT !.tree = old.tree]
        ELSE [edited EXCEPT !.tree = reparse(edited.source, edited.tree, ok)]

DidChange(u, changes, ok) ==
    /\ UNCHANGED <<lockVars, callVars>>
    /\ notifications < MaxNotifications
    /\ hist[u].open
    /\ changes # <<>>
    /\ changes_valid(hist[u].expected, changes)
    /\ u \in DOMAIN document_map => changes_valid(document_map[u].source, changes)
    /\ IF u \notin DOMAIN document_map
       THEN \* fall back to a full parse of the last change's text
            OnChangeStart(u, changes[Len(changes)].text, inferred_language(u), ok)
       ELSE LET old == document_map[u]
                doc == did_change_document(old, changes, ok)
            IN  /\ document_map' = MapInsert(document_map, u, doc)
                /\ tasks' = IF old.kind = "Layout"
                            THEN IF layout_parse(doc.source) # NoDoc
                                 THEN Spawned(Task("did_change", "dc_layout", u, doc.source,
                                                   NoTree, 0, 0))
                                 ELSE tasks
                            ELSE Spawned(Task("did_change", "dc_log", u, <<>>, NoTree, 0, 0))
                /\ UNCHANGED published
    /\ notifications' = notifications + 1
    /\ hist' = [hist EXCEPT ![u] = HistChange(@, changes, StoredWithoutTree(u),
                                               u \notin DOMAIN document_map)]
    /\ UNCHANGED <<indexVars, layout_index, indexing_complete, diagnostics_generation,
                   diagnostics_config>>

\* did_change of a layout after layout_index.write().await
DidChangeLayout(t) ==
    /\ UNCHANGED <<lockVars, callVars>>
    /\ t \in DOMAIN tasks
    /\ tasks[t].pc = "dc_layout"
    /\ layout_index' = MapInsert(layout_index, tasks[t].uri, layout_parse(tasks[t].text))
    /\ tasks' = Finished(t)
    /\ UNCHANGED <<indexVars, document_map, indexing_complete, diagnostics_generation,
                   diagnostics_config, published, notifications, hist>>

generation_of(u) == IF u \in DOMAIN diagnostics_generation THEN diagnostics_generation[u] ELSE 0

\* did_change after log_message().await : schedule_diagnostics bumps the
\* generation and spawns the debounced task, which starts to sleep
DidChangeSchedule(t) ==
    /\ UNCHANGED <<lockVars, callVars>>
    /\ t \in DOMAIN tasks
    /\ tasks[t].pc = "dc_log"
    /\ LET u == tasks[t].uri
           my_gen == generation_of(u) + 1
       IN  /\ diagnostics_generation' = MapInsert(diagnostics_generation, u, my_gen)
           /\ tasks' = Moved(t, Task("debounced", "db_sleep", u, <<>>, NoTree, my_gen,
                                     DIAGNOSTICS_DEBOUNCE_MS))
           /\ hist' = [hist EXCEPT ![u] = HistSchedule(@)]
    /\ UNCHANGED <<indexVars, document_map, layout_index, indexing_complete,
                   diagnostics_config, published, notifications>>

\* a debounced task that never gives way to a newer one
never_stale(u, my_gen) == FALSE

\* generation.load(SeqCst) != my_gen
is_stale(u, my_gen) == generation_of(u) # my_gen

\* the debounced task when its sleep is over: the stale check and the clone
\* of the document's source and tree
DebouncedWake(t) ==
    /\ UNCHANGED <<lockVars, callVars>>
    /\ t \in DOMAIN tasks
    /\ tasks[t].pc = "db_sleep"
    /\ tasks[t].timer = 0
    /\ LET me == tasks[t]
           stale == is_stale(me.uri, me.gen)
           closed == me.uri \notin DOMAIN document_map
       IN  tasks' = IF stale \/ closed THEN Finished(t)
                    ELSE IF document_map[me.uri].tree = NoTree THEN Finished(t)
                    ELSE Moved(t, [me EXCEPT !.pc = "db_index",
                                             !.text = document_map[me.uri].source,
                                             !.tree = document_map[me.uri].tree])
    /\ UNCHANGED <<indexVars, document_map, layout_index, indexing_complete,
                   diagnostics_generation, diagnostics_config, published, notifications, hist>>

\* the debounced task after workspace_index.write().await
DebouncedIndex(t) ==
    /\ UNCHANGED <<lockVars, callVars>>
    /\ t \in DOMAIN tasks
    /\ tasks[t].pc = "db_index"
    /\ definitions' = update_file(definitions, tasks[t].uri,
                                  extract_definitions(tasks[t].tree, tasks[t].text))
    /\ IndexUpdated(tasks[t].uri, extract_definitions(tasks[t].tree, tasks[t].text))
    /\ tasks' = Moved(t, [tasks[t] EXCEPT !.pc = "db_diag"])
    /\ UNCHANGED <<document_map, layout_index, indexing_complete,
                   diagnostics_generation, diagnostics_config, published, notifications, hist>>

\* the debounced task after the config and index read locks: collect and publish
DebouncedPublish(t) ==
    /\ UNCHANGED <<lockVars, callVars>>
    /\ t \in DOMAIN tasks
    /\ tasks[t].pc = "db_diag"
    /\ LET me == tasks[t]
           diags == collect_all_diagnostics(me.tree, me.text, diagnostics_config, IndexIfComplete)
       IN  published' = Append(published,
               Publication(me.uri, "debounced", me.gen, me.text, diags, is_some(IndexIfComplete)))
    /\ tasks' = Finished(t)
    /\ UNCHANGED <<indexVars, document_map, layout_index, indexing_complete,
                   diagnostics_generation, diagnostics_config, notifications, hist>>

\* a did_close that treats every document as a layout
was_layout_always(u) == TRUE

\* document_map.get(&uri).map(|d| d.kind == Layout).unwrap_or(false)
was_layout(u) == u \in DOMAIN document_map /\ document_map[u].kind = "Layout"

DidClose(u) ==
    /\ UNCHANGED <<lockVars, callVars>>
    /\ notifications < MaxNotifications
    /\ hist[u].open
    /\ LET layout == was_layout(u)
       IN  /\ document_map' = MapRemove(document_map, u)
           /\ IF layout
              THEN /\ tasks' = Spawned(Task("did_close", "cl_layout", u, <<>>, NoTree, 0, 0))
                   /\ UNCHANGED published
              ELSE /\ published' = Append(published, Publication(u, "did_close", 0, <<>>, {}, FALSE))
                   /\ UNCHANGED tasks
    /\ notifications' = notifications + 1
    /\ hist' = [hist EXCEPT ![u] = HistClose(@)]
    /\ UNCHANGED <<indexVars, layout_index, indexing_complete, diagnostics_generation,
                   diagnostics_config>>

\* did_close of a layout after layout_index.write().await
DidCloseLayout(t) ==
    /\ UNCHANGED <<lockVars, callVars>>
    /\ t \in DOMAIN tasks
    /\ tasks[t].pc = "cl_layout"
    /\ layout_index' = MapRemove(layout_index, tasks[t].uri)
    /\ published' = Append(published, Publication(tasks[t].uri, "did_close", 0, <<>>, {}, FALSE))
    /\ tasks' = Finished(t)
    /\ UNCHANGED <<indexVars, document_map, indexing_complete, diagnostics_generation,
                   diagnostics_config, notifications, hist>>

\* time passes: every sleeping debounced task gets closer to its wake-up
Tick ==
    /\ UNCHANGED <<lockVars, callVars>>
    /\ tasks' = [i \in DOMAIN tasks |->
                    IF tasks[i].pc = "db_sleep" /\ tasks[i].timer > 0
                    THEN [tasks[i] EXCEPT !.timer = IF @ > TickMs THEN @ - TickMs ELSE 0]
                    ELSE tasks[i]]
    /\ hist' = [u \in DOMAIN hist |-> HistTick(hist[u])]
    /\ <<tasks', hist'>> # <<tasks, hist>>
    /\ UNCHANGED <<indexVars, document_map, layout_index, indexing_complete,
                   diagnostics_generation, diagnostics_config, published, notifications>>

TaskIds == 1..(MaxNotifications + 2)

ChangeLists == SeqsUpTo(ChangePool, 1) \ {<<>>}

NextEdit ==
    \/ \E u \in DocUris, text \in OpenTexts, lang \in LanguageIds, ok \in BOOLEAN :
          DidOpen(u, text, lang, ok)
    \/ \E u \in DocUris, changes \in ChangeLists, ok \in BOOLEAN : DidChange(u, changes, ok)
    \/ \E u \in DocUris : DidClose(u)
    \/ \E t \in TaskIds : OnChangeIndex(t)
    \/ \E t \in TaskIds : OnChangeDiagnose(t)
    \/ \E t \in TaskIds : OnChangeLayout(t)
    \/ \E t \in TaskIds : DidChangeLayout(t)
    \/ \E t \in TaskIds : DidChangeSchedule(t)
    \/ \E t \in TaskIds : DebouncedWake(t)
    \/ \E t \in TaskIds : DebouncedIndex(t)
    \/ \E t \in TaskIds : DebouncedPublish(t)
    \/ \E t \in TaskIds : DidCloseLayout(t)
    \/ Tick

Spec == Init /\ [][NextEdit]_vars

\* ------------------------------------------------------------------------
\* backend.rs : pull_diagnostics_config, initialized and its scan task
\* ------------------------------------------------------------------------
WorkspaceFolder == "file:///ws/"

Bool(b) == [bool |-> b]

NotBool == [text |-> "off"]

\* what client.configuration answers: an error, or the br-lsp.diagnostics object
StartupResponses ==
    {[kind |-> "error"],
     [kind |-> "object", fields |-> ("undefinedFunctions" :> Bool(FALSE))]}

ConfigResponses ==
    StartupResponses
        \cup {[kind |-> "object",
               fields |-> ("undefinedFunctions" :> Bool(TRUE)) @@ ("functions" :> NotBool)]}

\* a field that falls back to the default when its value is not a boolean
config_field_or_default(obj, key, old) ==
    IF key \in DOMAIN obj
    THEN IF "bool" \in DOMAIN obj[key] THEN obj[key].bool ELSE TRUE
    ELSE old

\* obj.get(key).and_then(|v| v.as_bool()) : the old value stays without a bool
config_field(obj, key, old) ==
    IF key \in DOMAIN obj /\ "bool" \in DOMAIN obj[key] THEN obj[key].bool ELSE old

pull_diagnostics_config(config, resp) ==
    IF resp.kind # "object" THEN config
    ELSE [syntax |-> config_field(resp.fields, "syntax", config.syntax),
          functions |-> config_field(resp.fields, "functions", config.functions),
          undefined_functions |->
              config_field(resp.fields, "undefinedFunctions", config.undefined_functions),
          unused_variables |->
              config_field(resp.fields, "unusedVariables", config.unused_variables)]

\* what scan_workspace_folder finds on disk: the files that hold definitions
DiskDefs == <<FunctionDef(NameDefined, FALSE, FALSE)>>

ScanResults == {<<>>, <<[uri |-> UriLib, defs |-> DiskDefs]>>}

\* what scan_workspace_layouts finds on disk
DiskLayouts == {<<[uri |-> UriLay, layout |-> layout_parse(<<"d">>)]>>}

\* for (uri, defs) in file_defs { idx.add_file(&uri, defs) }
RECURSIVE add_files(_, _)
add_files(idx, files) ==
    IF files = <<>> THEN idx
    ELSE add_files(add_file(idx, Head(files).uri, Head(files).defs), Tail(files))

RECURSIVE AccumAfter(_, _)
AccumAfter(acc, files) ==
    IF files = <<>> THEN acc
    ELSE AccumAfter([acc EXCEPT ![Head(files).uri] = @ \o Head(files).defs], Tail(files))

RECURSIVE LatestAfter(_, _)
LatestAfter(lat, files) ==
    IF files = <<>> THEN lat
    ELSE LatestAfter([lat EXCEPT ![Head(files).uri] = Head(files).defs], Tail(files))

RECURSIVE add_layouts(_, _)
add_layouts(idx, layouts) ==
    IF layouts = <<>> THEN idx
    ELSE add_layouts(MapInsert(idx, Head(layouts).uri, Head(layouts).layout), Tail(layouts))

TaskWith(task, pc, todo) == [task EXCEPT !.pc = pc, !.todo = todo]

\* initialized, up to its first await (register_capability)
Initialized ==
    /\ UNCHANGED <<lockVars, callVars>>
    /\ ~indexing_complete
    /\ \A t \in DOMAIN tasks : tasks[t].kind \notin {"initialized", "scan"}
    /\ tasks' = Spawned(Task("initialized", "in_pull", WorkspaceFolder, <<>>, NoTree, 0, 0))
    /\ UNCHANGED <<indexVars, document_map, layout_index, indexing_complete,
                   diagnostics_generation, diagnostics_config, published, notifications, hist>>

\* the flag stored when the scan task is spawned, before it has scanned
InitializedPullStoresFlag(t, resp) ==
    /\ UNCHANGED <<lockVars, callVars>>
    /\ t \in DOMAIN tasks
    /\ tasks[t].pc = "in_pull"
    /\ diagnostics_config' = pull_diagnostics_config(diagnostics_config, resp)
    /\ indexing_complete' = TRUE
    /\ tasks' = Moved(t, Task("scan", "sc_index", WorkspaceFolder, <<>>, NoTree, 0, 0))
    /\ UNCHANGED <<indexVars, document_map, layout_index,
                   diagnostics_generation, published, notifications, hist>>

\* initialized after client.configuration and diagnostics_config.write().await:
\* the configuration is stored and the scan task is spawned
InitializedPull(t, resp) ==
    /\ UNCHANGED <<lockVars, callVars>>
    /\ t \in DOMAIN tasks
    /\ tasks[t].pc = "in_pull"
    /\ diagnostics_config' = pull_diagnostics_config(diagnostics_config, resp)
    /\ tasks' = Moved(t, Task("scan", "sc_index", WorkspaceFolder, <<>>, NoTree, 0, 0))
    /\ UNCHANGED <<indexVars, document_map, layout_index, indexing_complete,
                   diagnostics_generation, published, notifications, hist>>

\* the scan task with workspace_index.write(): add_file for every file that
\* scan_workspace_folder read from the disk (the read touches no server state)
ScanIndex(t, files) ==
    /\ UNCHANGED <<lockVars, callVars>>
    /\ t \in DOMAIN tasks
    /\ tasks[t].pc = "sc_index"
    /\ definitions' = add_files(definitions, files)
    /\ accum' = AccumAfter(accum, files)
    /\ latest' = LatestAfter(latest, files)
    /\ tasks' = Moved(t, TaskWith(tasks[t], "sc_layout", <<>>))
    /\ UNCHANGED <<document_map, layout_index, indexing_complete,
                   diagnostics_generation, diagnostics_config, published, notifications, hist>>

\* the scan task with layout_index.write(): every layout read from the disk
ScanLayouts(t, layouts) ==
    /\ UNCHANGED <<lockVars, callVars>>
    /\ t \in DOMAIN tasks
    /\ tasks[t].pc = "sc_layout"
    /\ layout_index' = add_layouts(layout_index, layouts)
    /\ tasks' = Moved(t, TaskWith(tasks[t], "sc_store", <<>>))
    /\ UNCHANGED <<indexVars, document_map, indexing_complete,
                   diagnostics_generation, diagnostics_config, published, notifications, hist>>

\* the documents the republish passes keep: those with a tree
WithTree == {u \in DOMAIN document_map : document_map[u].tree # NoTree}

\* after the progress and log awaits: indexing_complete.store(true)
ScanComplete(t) ==
    /\ UNCHANGED <<lockVars, callVars>>
    /\ t \in DOMAIN tasks
    /\ tasks[t].pc = "sc_store"
    /\ indexing_complete' = TRUE
    /\ hist' = [u \in DOMAIN hist |-> [hist[u] EXCEPT !.owed = @ \/ u \in WithTree]]
    /\ tasks' = Moved(t, TaskWith(tasks[t], "sc_snap", <<>>))
    /\ UNCHANGED <<indexVars, document_map, layout_index,
                   diagnostics_generation, diagnostics_config, published, notifications>>

\* the orders in which DashMap::iter may visit a set of documents
Perms(S) == {o \in SeqOfLen(S, Cardinality(S)) : Range(o) = S}

\* the filter_map of a republish pass: one (uri, diagnostics) per document
\* with a tree, computed from the stored source
snapshot(order, origin, index) ==
    [i \in DOMAIN order |->
        LET doc == document_map[order[i]]
        IN  Publication(order[i], origin, 0, doc.source,
                        collect_all_diagnostics(doc.tree, doc.source, diagnostics_config, index),
                        is_some(index))]

\* a republish pass that drops what it collected
ToPublishNothing(t, items) == Finished(t)

\* a republish pass has collected to_publish: the loop of publishes is next
ToPublish(t, items) ==
    IF items = <<>> THEN Finished(t) ELSE Moved(t, TaskWith(tasks[t], "publish", items))

\* the scan task with the config and index read locks: the snapshot of the
\* open documents
ScanSnapshot(t, order) ==
    /\ UNCHANGED <<lockVars, callVars>>
    /\ t \in DOMAIN tasks
    /\ tasks[t].pc = "sc_snap"
    /\ order \in Perms(WithTree)
    /\ tasks' = ToPublish(t, snapshot(order, "scan", SomeIndex(definitions)))
    /\ hist' = [u \in DOMAIN hist |-> [hist[u] EXCEPT !.snapOwed = @ \/ u \in WithTree]]
    /\ UNCHANGED <<indexVars, document_map, layout_index, indexing_complete,
                   diagnostics_generation, diagnostics_config, published, notifications>>

\* for (uri, diags) in to_publish { publish_diagnostics(..).await }: one call
RepublishNext(t) ==
    /\ UNCHANGED <<lockVars, callVars>>
    /\ t \in DOMAIN tasks
    /\ tasks[t].pc = "publish"
    /\ published' = Append(published,
                           [Head(tasks[t].todo) EXCEPT !.complete = indexing_complete])
    /\ tasks' = ToPublish(t, Tail(tasks[t].todo))
    /\ UNCHANGED <<indexVars, document_map, layout_index, indexing_complete,
                   diagnostics_generation, diagnostics_config, notifications, hist>>

\* ------------------------------------------------------------------------
\* backend.rs : did_change_configuration, did_change_watched_files
\* ------------------------------------------------------------------------
DidChangeConfiguration ==
    /\ UNCHANGED <<lockVars, callVars>>
    /\ notifications < MaxNotifications
    /\ tasks' = Spawned(Task("did_change_configuration", "cf_pull", WorkspaceFolder,
                             <<>>, NoTree, 0, 0))
    /\ notifications' = notifications + 1
    /\ UNCHANGED <<indexVars, document_map, layout_index, indexing_complete,
                   diagnostics_generation, diagnostics_config, published, hist>>

\* pull_diagnostics_config after client.configuration and the config write lock
ConfigPull(t, resp) ==
    /\ UNCHANGED <<lockVars, callVars>>
    /\ t \in DOMAIN tasks
    /\ tasks[t].pc = "cf_pull"
    /\ diagnostics_config' = pull_diagnostics_config(diagnostics_config, resp)
    /\ tasks' = Moved(t, TaskWith(tasks[t], "cf_snap", <<>>))
    /\ UNCHANGED <<indexVars, document_map, layout_index, indexing_complete,
                   diagnostics_generation, published, notifications, hist>>

\* republish_all_diagnostics with its read locks: the snapshot
ConfigSnapshot(t, order) ==
    /\ UNCHANGED <<lockVars, callVars>>
    /\ t \in DOMAIN tasks
    /\ tasks[t].pc = "cf_snap"
    /\ order \in Perms(WithTree)
    /\ tasks' = ToPublish(t, snapshot(order, "republish", IndexIfComplete))
    /\ UNCHANGED <<indexVars, document_map, layout_index, indexing_complete,
                   diagnostics_generation, diagnostics_config, published, notifications, hist>>

Unreadable == [unreadable |-> TRUE]

Readable(text, ok) == [text |-> text, ok |-> ok]

FileEvent(uri, typ, disk) == [uri |-> uri, typ |-> typ, disk |-> disk]

\* layout::is_layout_file
is_layout_file(u) == UriPath[u].ext = "lay" \/ UriPath[u].parent = "filelay"

\* a file event that reaches a lock await: a deletion, or a creation or change
\* of a file that is not open, can be read and parses
needs_lock(e) ==
    IF e.typ = "DELETED" THEN TRUE
    ELSE /\ e.uri \notin DOMAIN document_map
         /\ e.disk # Unreadable
         /\ IF is_layout_file(e.uri) THEN layout_parse(e.disk.text) # NoDoc
            ELSE parse(e.disk.text, e.disk.ok) # NoTree

\* the loop over params.changes up to the next lock await
RECURSIVE watched_pending(_)
watched_pending(changes) ==
    IF changes = <<>> THEN <<>>
    ELSE IF needs_lock(Head(changes)) THEN changes
    ELSE watched_pending(Tail(changes))

DidChangeWatchedFiles(changes) ==
    /\ UNCHANGED <<lockVars, callVars>>
    /\ notifications < MaxNotifications
    /\ LET rest == watched_pending(changes)
       IN  tasks' = IF rest = <<>> THEN tasks
                    ELSE Spawned(TaskWith(Task("did_change_watched_files", "wf_lock",
                                               rest[1].uri, <<>>, NoTree, 0, 0),
                                          "wf_lock", rest))
    /\ notifications' = notifications + 1
    /\ UNCHANGED <<indexVars, document_map, layout_index, indexing_complete,
                   diagnostics_generation, diagnostics_config, published, hist>>

\* did_change_watched_files with the write lock of the event at hand
WatchedApply(t) ==
    /\ UNCHANGED <<lockVars, callVars>>
    /\ t \in DOMAIN tasks
    /\ tasks[t].pc = "wf_lock"
    /\ LET e == Head(tasks[t].todo)
           rest == watched_pending(Tail(tasks[t].todo))
           defs == extract_definitions(parse(e.disk.text, e.disk.ok), e.disk.text)
       IN  /\ IF is_layout_file(e.uri)
              THEN /\ layout_index' = IF e.typ = "DELETED" THEN MapRemove(layout_index, e.uri)
                                      ELSE MapInsert(layout_index, e.uri, layout_parse(e.disk.text))
                   /\ UNCHANGED indexVars
              ELSE /\ definitions' = IF e.typ = "DELETED" THEN remove_file(definitions, e.uri)
                                     ELSE update_file(definitions, e.uri, defs)
                   /\ IndexUpdated(e.uri, IF e.typ = "DELETED" THEN <<>> ELSE defs)
                   /\ UNCHANGED layout_index
           /\ tasks' = IF rest = <<>> THEN Finished(t)
                        ELSE Moved(t, [TaskWith(tasks[t], "wf_lock", rest) EXCEPT !.uri = rest[1].uri])
    /\ UNCHANGED <<document_map, indexing_complete, diagnostics_generation,
                   diagnostics_config, published, notifications, hist>>

\* the file events of the model, and the change lists that carry them
EventPool ==
    {FileEvent(UriA, "DELETED", Unreadable),
     FileEvent(UriA, "CHANGED", Readable(<<"d">>, TRUE)),
     FileEvent(UriA, "CREATED", Unreadable),
     FileEvent(UriLay, "DELETED", Unreadable),
     FileEvent(UriLay, "CREATED", Readable(<<"d">>, TRUE))}

WatchedChangeLists ==
    {<<e>> : e \in EventPool}
        \cup {<<FileEvent(UriA, "CREATED", Unreadable), FileEvent(UriA, "DELETED", Unreadable)>>}

\* the steps of the tasks of the edit handlers
EditTaskStep ==
    \/ \E t \in TaskIds : OnChangeIndex(t)
    \/ \E t \in TaskIds : OnChangeDiagnose(t)
    \/ \E t \in TaskIds : DidChangeSchedule(t)
    \/ \E t \in TaskIds : DebouncedWake(t)
    \/ \E t \in TaskIds : DebouncedIndex(t)
    \/ \E t \in TaskIds : DebouncedPublish(t)

\* the steps of initialized and its scan task
ScanTaskStep ==
    \/ \E t \in TaskIds, resp \in StartupResponses : InitializedPull(t, resp)
    \/ \E t \in TaskIds, files \in ScanResults : ScanIndex(t, files)
    \/ \E t \in TaskIds, layouts \in DiskLayouts : ScanLayouts(t, layouts)
    \/ \E t \in TaskIds : ScanComplete(t)
    \/ \E t \in TaskIds, order \in Perms(WithTree) : ScanSnapshot(t, order)
    \/ \E t \in TaskIds : RepublishNext(t)

\* the steps of did_change_configuration
ConfigTaskStep ==
    \/ \E t \in TaskIds, resp \in ConfigResponses : ConfigPull(t, resp)
    \/ \E t \in TaskIds, order \in Perms(WithTree) : ConfigSnapshot(t, order)

\* the document of the workspace runs: a call of FNa, and an edit that
\* retypes its first character
WorkspaceTexts == {<<"c">>}

WorkspaceChanges == {<<[range |-> <<0, 0, 0, 1>>, text |-> <<"c">>]>>}

\* the handlers of one BR document, the configuration and the startup scan
NextWorkspace ==
    \/ \E text \in WorkspaceTexts : DidOpen(UriA, text, "br", TRUE)
    \/ \E changes \in WorkspaceChanges : DidChange(UriA, changes, TRUE)
    \/ DidClose(UriA)
    \/ Initialized
    \/ DidChangeConfiguration
    \/ EditTaskStep
    \/ ScanTaskStep
    \/ ConfigTaskStep
    \/ Tick

SpecWorkspace == Init /\ [][NextWorkspace]_vars

\* the steps of on_change
OpenTaskStep ==
    \/ \E t \in TaskIds : OnChangeIndex(t)
    \/ \E t \in TaskIds : OnChangeDiagnose(t)

\* documents are opened and closed while the startup scan runs
NextScan ==
    \/ \E u \in DocUris, text \in WorkspaceTexts, ok \in BOOLEAN : DidOpen(u, text, "br", ok)
    \/ \E u \in DocUris : DidClose(u)
    \/ Initialized
    \/ OpenTaskStep
    \/ ScanTaskStep

\* tokio runs every ready task, its locks are fair and the client answers:
\* a task that can take a step takes one
SpecScan == Init /\ [][NextScan]_vars /\ WF_vars(OpenTaskStep) /\ WF_vars(ScanTaskStep)

\* ------------------------------------------------------------------------
\* Properties of the document handlers and the debounced diagnostics
\* ------------------------------------------------------------------------
DebouncedPublications(u) ==
    SelectSeq(published, LAMBDA p : p.uri = u /\ p.origin = "debounced")

\* C1: for every URI, a publish made by the debounced task of generation g
\* never comes after a publish made by the debounced task of a generation
\* g' > g: along the publish log the generations of one URI never decrease.
GenerationSafety ==
    \A u \in DocUris :
        LET ps == DebouncedPublications(u)
        IN  \A i, j \in DOMAIN ps : i < j => ps[i].gen <= ps[j].gen

HandlersFinished(u) ==
    \A t \in DOMAIN tasks :
        tasks[t].uri = u => tasks[t].kind \notin {"on_change", "did_change", "did_close"}

\* C5: for any sequence of did_open and did_change notifications for one URI,
\* once all their handlers have finished the stored source is the text
\* obtained by applying the notifications one after another in arrival order.
EditsAppliedInArrivalOrder ==
    \A u \in DocUris :
        (hist[u].open /\ ~hist[u].closed /\ HandlersFinished(u))
            => /\ u \in DOMAIN document_map
               /\ document_map[u].source = hist[u].expected

Quiescent(u) == \A t \in DOMAIN tasks : tasks[t].uri # u

ScheduledBurst(u) ==
    /\ hist[u].schedN >= 1
    /\ hist[u].schedOk
    /\ ~hist[u].closed
    /\ ~hist[u].treeLost
    /\ Quiescent(u)

ClosePublication(u) == Publication(u, "did_close", 0, <<>>, {}, FALSE)

\* the step in which did_close(u) starts: the client's document stops being open
CloseStarts(u) == hist[u].open /\ ~hist'[u].open

\* the step in which a did_close resumes after layout_index.write().await
CloseResumes(t) == t \in DOMAIN tasks /\ tasks[t].pc = "cl_layout" /\ t \notin DOMAIN tasks'

\* C9: did_close(uri) removes uri from the document map, removes uri from the
\* layout index only when the document was a Layout document, publishes
\* exactly one empty diagnostics list for uri, and changes no entry of the
\* workspace index.
DidCloseFrame ==
    [][ /\ \A u \in DocUris :
              CloseStarts(u) =>
                  /\ u \notin DOMAIN document_map'
                  /\ definitions' = definitions
                  /\ layout_index' = layout_index
                  /\ IF u \in DOMAIN document_map /\ document_map[u].kind = "Layout"
                     THEN /\ published' = published
                          /\ \E t \in DOMAIN tasks' \ DOMAIN tasks :
                                 tasks'[t].pc = "cl_layout" /\ tasks'[t].uri = u
                     ELSE /\ published' = Append(published, ClosePublication(u))
                          /\ tasks' = tasks
        /\ \A t \in TaskIds :
              CloseResumes(t) =>
                  /\ layout_index' = MapRemove(layout_index, tasks[t].uri)
                  /\ definitions' = definitions
                  /\ document_map' = document_map
                  /\ published' = Append(published, ClosePublication(tasks[t].uri))
      ]_vars

\* a BR document was closed, its empty diagnostics list was published, and
\* its definitions are still in the index
DidCloseWitness ==
    /\ hist[UriA].closed
    /\ ~hist[UriA].open
    /\ UriA \notin DOMAIN document_map
    /\ \E k \in DOMAIN definitions : \E i \in DOMAIN definitions[k] : definitions[k][i].uri = UriA
    /\ published # <<>>
    /\ published[Len(published)] = ClosePublication(UriA)

\* ------------------------------------------------------------------------
\* Properties of the startup scan and the republish passes
\* ------------------------------------------------------------------------
HasUndefinedFunction(p) == \E d \in p.diags : d.code = "undefined-function"

\* C7: every published diagnostic with code "undefined-function" was computed
\* and published with indexing_complete set, with the workspace index handed
\* to collect_all_diagnostics and with the undefinedFunctions flag true
NoUndefinedBeforeIndexing ==
    \A i \in DOMAIN published :
        HasUndefinedFunction(published[i])
            => /\ published[i].complete
               /\ published[i].with_index
               /\ published[i].undef_cfg

\* a call of an unknown function is published without diagnostics before the
\* scan has finished and with the undefined-function diagnostic afterwards
NoUndefinedBeforeIndexingWitness ==
    \E i, j \in DOMAIN published :
        /\ i < j
        /\ published[i].uri = UriA /\ published[j].uri = UriA
        /\ published[i].source = <<"c">> /\ published[j].source = <<"c">>
        /\ ~published[i].complete /\ published[i].diags = {}
        /\ published[i].undef_cfg
        /\ HasUndefinedFunction(published[j])

PublishedWithIndex(u) ==
    \E i \in DOMAIN published : published[i].uri = u /\ published[i].with_index

NoTaskLeft == DOMAIN tasks = {}

\* C8 as claimed: a document that is open with a tree when the scan task
\* stores indexing_complete has got a publish computed with the index once
\* every task has run to its end
ScanRepublishesOpenAtStore ==
    \A u \in DOMAIN hist : (hist[u].owed /\ NoTaskLeft) => PublishedWithIndex(u)

\* C8: a document that is open with a tree when the scan task takes its
\* snapshot of the document map eventually gets a publish computed with the index
ScanRepublishesOpenAtSnapshot ==
    \A u \in DocUris : hist[u].snapOwed ~> PublishedWithIndex(u)

\* the scan task found the document and has published for it
ScanRepublishWitness ==
    /\ hist[UriA].snapOwed
    /\ \E i \in DOMAIN published :
          /\ published[i].uri = UriA
          /\ published[i].origin = "scan"
          /\ published[i].with_index

\* ------------------------------------------------------------------------
\* The workspace index on its own: any sequence of add_file, update_file and
\* remove_file calls
\* ------------------------------------------------------------------------
\* the definitions the calls are made with: a plain def, a library def, an
\* import declaration and a def of another name
DefPool ==
    {FunctionDef(<<"f", "n", "A">>, FALSE, FALSE),
     FunctionDef(<<"F", "N", "a">>, TRUE, FALSE),
     FunctionDef(<<"f", "n", "A">>, TRUE, TRUE),
     FunctionDef(<<"f", "n", "B">>, FALSE, FALSE)}

DefLists == SeqsUpTo(DefPool, MaxDefsPerCall)

QueryNames == {<<"f", "n", "A">>, <<"F", "N", "A">>, <<"f", "n", "a">>, <<"F", "n", "b">>}

IndexSize(idx) == Cardinality(UNION {{<<k, i>> : i \in DOMAIN idx[k]} : k \in DOMAIN idx})

AddFile(u, defs) ==
    /\ UNCHANGED <<lockVars, callVars>>
    /\ IndexSize(definitions) + Len(defs) <= MaxIndexEntries
    /\ definitions' = add_file(definitions, u, defs)
    /\ accum' = [accum EXCEPT ![u] = @ \o defs]
    /\ latest' = [latest EXCEPT ![u] = defs]
    /\ UNCHANGED serverVars

UpdateFile(u, defs) ==
    /\ UNCHANGED <<lockVars, callVars>>
    /\ IndexSize(remove_file(definitions, u)) + Len(defs) <= MaxIndexEntries
    /\ definitions' = update_file(definitions, u, defs)
    /\ IndexUpdated(u, defs)
    /\ UNCHANGED serverVars

RemoveFile(u) ==
    /\ UNCHANGED <<lockVars, callVars>>
    /\ definitions' = remove_file(definitions, u)
    /\ IndexUpdated(u, <<>>)
    /\ UNCHANGED serverVars

NextIndex ==
    \/ \E u \in BrUris, defs \in DefLists : AddFile(u, defs)
    \/ \E u \in BrUris, defs \in DefLists : UpdateFile(u, defs)
    \/ \E u \in BrUris : RemoveFile(u)

SpecIndex == Init /\ [][NextIndex]_vars

\* the definitions lookup(name) holds for URI u, in order
LookupOf(u, name) ==
    LET es == SelectSeq(lookup(definitions, name), LAMBDA e : e.uri = u)
    IN  [i \in DOMAIN es |-> es[i].def]

\* the definitions of a list that are named name, case-insensitively
Named(defs, name) ==
    SelectSeq(defs, LAMBDA d : to_ascii_lowercase(d.name) = to_ascii_lowercase(name))

\* C3 as stated: lookup(name) holds, for every URI, exactly the definitions
\* named name of that URI's latest add_file or update_file call, and nothing
\* for a URI that was removed.
IndexHoldsLatestCall ==
    \A u \in AllUris, name \in QueryNames :
        LookupOf(u, name) = Named(latest[u], name)

\* C3: lookup(name) holds, for every URI, exactly the definitions named name
\* that were added for it since its last remove_file or update_file:
\* update_file(u, defs) leaves exactly defs for u, remove_file(u) leaves
\* nothing for u, neither touches another URI, and add_file appends.
IndexCoherence ==
    /\ \A u \in AllUris, name \in QueryNames :
           LookupOf(u, name) = Named(accum[u], name)
    /\ \A k \in DOMAIN definitions :
           /\ definitions[k] # <<>>
           /\ \A i \in DOMAIN definitions[k] :
                  /\ to_ascii_lowercase(definitions[k][i].def.name) = k
                  /\ definitions[k][i].uri \in AllUris

\* one URI was added to twice, so it holds more than its latest call gave
IndexCoherenceWitness ==
    /\ Len(accum[UriA]) > Len(latest[UriA])
    /\ latest[UriA] # <<>>
    /\ accum[UriLib] = <<>>
    /\ IndexSize(definitions) >= 2

\* the current file's library link for a name resolves to a file (or to none);
\* a definition matches the link when it lies in that file
library_link_match(d, link) == link # NoLink /\ d.uri = link

LinkTargets == AllUris \cup {NoLink}

IsLocal(d, U) == d.uri = U /\ ~d.def.is_import_only

NextWatched ==
    \/ \E u \in DocUris, text \in OpenTexts, ok \in BOOLEAN :
          DidOpen(u, text, inferred_language(u), ok)
    \/ \E u \in DocUris : DidClose(u)
    \/ \E changes \in WatchedChangeLists : DidChangeWatchedFiles(changes)
    \/ \E t \in TaskIds : OnChangeIndex(t)
    \/ \E t \in TaskIds : OnChangeDiagnose(t)
    \/ \E t \in TaskIds : OnChangeLayout(t)
    \/ \E t \in TaskIds : DidCloseLayout(t)
    \/ \E t \in TaskIds : WatchedApply(t)

SpecWatched == Init /\ [][NextWatched]_vars

\* the step in which a did_change_watched_files resumes with its write lock
WatchedResumes(t) ==
    /\ t \in DOMAIN tasks
    /\ tasks[t].pc = "wf_lock"
    /\ (t \notin DOMAIN tasks' \/ tasks'[t] # tasks[t])

\* C4: a watched-file event whose URI is in the document map leaves the
\* workspace index and the layout index unchanged: the entries of an open
\* document are never replaced or removed by what is on disk.
WatchedFilesSkipOpen ==
    [][ \A t \in TaskIds :
          (WatchedResumes(t) /\ Head(tasks[t].todo).uri \in DOMAIN document_map)
              => /\ definitions' = definitions
                 /\ layout_index' = layout_index ]_vars

\* ------------------------------------------------------------------------
\* The locks: the tokio RwLocks of Backend and the entries of the DashMap.
\* Each handler is the sequence of its lock operations and awaits.
\* ------------------------------------------------------------------------
MaxHandlers == 3

LockOp(op, lock, mode) == [op |-> op, lock |-> lock, mode |-> mode]

\* lock.read().await / lock.write().await, and the drop of the guard
Read(lock) == LockOp("acquire", lock, "read")

Write(lock) == LockOp("acquire", lock, "write")

Drop(lock) == LockOp("release", lock, "none")

\* if indexing_complete.load() { Some(workspace_index.read().await) } else { None }
ReadIfComplete(lock) == LockOp("acquire_if", lock, "read")

\* document_map.get / get_mut bound to a variable: the Ref lives until its drop
DocGet == LockOp("acquire", "document_map", "read")

DocGetMut == LockOp("acquire", "document_map", "write")

DocDrop == LockOp("release", "document_map", "none")

\* a document_map call whose Ref ends within the expression:
\* get().map(..), contains_key, iter().collect() / insert, remove
DocRead == LockOp("touch", "document_map", "read")

DocWrite == LockOp("touch", "document_map", "write")

\* an await on the client, on a sleep or on a blocking task
Await == LockOp("await", "client", "none")

\* The lock operations and awaits of the handlers and spawned tasks, in
\* program order.
initialize_locks == <<Write("folders"), Drop("folders")>>

pull_diagnostics_config_locks == <<Await, Write("config"), Drop("config")>>

on_change_layout_locks == <<Write("layout"), Drop("layout"), DocWrite, Await>>

on_change_locks ==
    <<Write("index"), Drop("index"), Read("config"), ReadIfComplete("index"),
      Drop("index"), Drop("config"), DocWrite, Await, Await>>

\* a did_change that still holds its entry at the log_message await
did_change_keeps_entry == <<DocGetMut, Await, DocDrop>>

did_change_locks == <<DocGetMut, DocDrop, Await>>

did_change_layout_locks == <<DocGetMut, DocDrop, Write("layout"), Drop("layout")>>

schedule_diagnostics_locks ==
    <<Await, DocGet, DocDrop, Write("index"), Drop("index"), Read("config"),
      ReadIfComplete("index"), Await, Await, Drop("index"), Drop("config")>>

republish_all_diagnostics_locks ==
    <<Read("config"), ReadIfComplete("index"), DocRead, Await, Drop("index"), Drop("config")>>

did_change_configuration_locks ==
    pull_diagnostics_config_locks \o republish_all_diagnostics_locks

initialized_locks ==
    <<Await>> \o pull_diagnostics_config_locks \o <<Read("folders"), Drop("folders")>>

scan_task_locks ==
    <<Await, Await, Write("index"), Drop("index"), Write("layout"), Drop("layout"),
      Await, Await, Read("config"), Read("index"), DocRead, Drop("index"), Drop("config"),
      Await>>

did_close_locks == <<DocRead, DocWrite, Write("layout"), Drop("layout"), Await>>

completion_locks ==
    <<DocRead, Read("index"), Read("layout"), DocRead, Await, Drop("layout"), Drop("index")>>

completion_resolve_locks == <<Read("index"), Drop("index")>>

goto_definition_locks ==
    <<DocRead, DocRead, Await, DocRead, Read("folders"), Read("index"), Await,
      Drop("index"), Drop("folders")>>

hover_locks ==
    <<DocRead, DocGet, DocDrop, Read("folders"), Read("index"), Drop("index"), Drop("folders")>>

signature_help_locks ==
    <<DocGet, DocDrop, Read("folders"), Read("index"), Drop("index"), Drop("folders")>>

\* references and rename on a function name: search_workspace_for_function_refs
references_locks ==
    <<DocRead, DocRead, DocRead, Read("folders"), Drop("folders"), Await, Await>>

\* a handler that takes the index lock first and the folders lock second
did_change_workspace_folders_reversed ==
    <<Write("index"), Write("folders"), Drop("folders"), Drop("index")>>

\* did_change_workspace_folders, the removed folders
did_change_workspace_folders_locks ==
    <<Write("folders"), Write("index"), Drop("index"), Drop("folders")>>

\* did_change_workspace_folders, the added folders and the spawned scan
added_folders_locks ==
    <<Write("folders"), Drop("folders"), Write("index"), Drop("index"), Await>>

did_change_watched_files_locks ==
    <<Write("layout"), Drop("layout"), DocRead, Write("index"), Drop("index")>>

symbol_locks == <<Read("index"), Await, Drop("index")>>

execute_command_locks ==
    <<Read("folders"), Drop("folders"), Read("config"), Drop("config"), Await, Await, Await>>

\* the handlers and spawned tasks that touch a tokio lock
LockingHandlers ==
    {initialize_locks, initialized_locks, scan_task_locks, on_change_layout_locks,
     on_change_locks, did_change_locks, did_change_layout_locks,
     schedule_diagnostics_locks, did_change_configuration_locks, did_close_locks,
     completion_locks, completion_resolve_locks, goto_definition_locks, hover_locks,
     signature_help_locks, references_locks, did_change_workspace_folders_locks,
     added_folders_locks, did_change_watched_files_locks, symbol_locks,
     execute_command_locks}

code_action_locks == <<DocRead, DocGet, DocDrop>>

document_highlight_locks == <<DocRead, DocRead>>

prepare_rename_locks == <<DocRead, DocRead>>

\* references and rename on a symbol that is no function name
local_references_locks == <<DocRead, DocRead, DocRead, Await>>

document_symbol_locks == <<DocRead, DocRead, Await>>

semantic_tokens_full_locks == <<DocRead, Await>>

\* every handler and spawned task that touches a lock or the document map
HandlerPrograms ==
    LockingHandlers
        \cup {code_action_locks, document_highlight_locks, prepare_rename_locks,
              local_references_locks, document_symbol_locks, semantic_tokens_full_locks}

\* an await changes no lock: the lock runs keep the lock operations only
LockOps(prog) == SelectSeq(prog, LAMBDA o : o.op # "await")

LockPrograms == {LockOps(prog) : prog \in LockingHandlers}

HandlerIds == 1..MaxHandlers

\* a running handler is the sequence of the operations it has still to do
CurrentOp(t) == Head(handlers[t])

\* a read guard goes with other read guards, a write guard with none
Compatible(l, mode) ==
    IF mode = "write" THEN locks[l].holders = {}
    ELSE \A h \in locks[l].holders : h.mode = "read"

Queued(t, l) == \E i \in DOMAIN locks[l].queue : locks[l].queue[i].task = t

Waiting(t) == \E l \in LockNames : Queued(t, l)

Held(t) == {l \in LockNames : \E h \in locks[l].holders : h.task = t}

\* the handler has done its current operation
Advance(hs, t) ==
    IF Len(hs[t]) = 1
    THEN [i \in DOMAIN hs \ {t} |-> hs[i]]
    ELSE [hs EXCEPT ![t] = Tail(@)]

HandlerStart(prog) ==
    /\ Cardinality(DOMAIN handlers) < MaxHandlers
    /\ LET id == CHOOSE i \in HandlerIds : i \notin DOMAIN handlers
       IN  handlers' = [i \in DOMAIN handlers \cup {id} |->
                           IF i = id THEN prog ELSE handlers[i]]
    /\ UNCHANGED <<locks, indexVars, serverVars, callVars>>

\* read().await / write().await : the guard at once when the lock is free and
\* nobody waits, a place at the end of the queue otherwise
LockRequest(t) ==
    /\ t \in DOMAIN handlers
    /\ CurrentOp(t).op \in {"acquire", "acquire_if"}
    /\ ~Waiting(t)
    /\ LET l == CurrentOp(t).lock
           me == [task |-> t, mode |-> CurrentOp(t).mode]
       IN  IF locks[l].queue = <<>> /\ Compatible(l, me.mode)
           THEN /\ locks' = [locks EXCEPT ![l].holders = @ \cup {me}]
                /\ handlers' = Advance(handlers, t)
           ELSE /\ locks' = [locks EXCEPT ![l].queue = Append(@, me)]
                /\ UNCHANGED handlers
    /\ UNCHANGED <<indexVars, serverVars, callVars>>

\* the first waiter gets the guard as soon as the holders allow it
LockGrant(l) ==
    /\ locks[l].queue # <<>>
    /\ Compatible(l, Head(locks[l].queue).mode)
    /\ locks' = [locks EXCEPT ![l].holders = @ \cup {Head(locks[l].queue)},
                              ![l].queue = Tail(@)]
    /\ handlers' = Advance(handlers, Head(locks[l].queue).task)
    /\ UNCHANGED <<indexVars, serverVars, callVars>>

LockRelease(t) ==
    /\ t \in DOMAIN handlers
    /\ CurrentOp(t).op = "release"
    /\ locks' = [locks EXCEPT ![CurrentOp(t).lock].holders = {h \in @ : h.task # t}]
    /\ handlers' = Advance(handlers, t)
    /\ UNCHANGED <<indexVars, serverVars, callVars>>

DocAccess(t) ==
    /\ t \in DOMAIN handlers
    /\ CurrentOp(t).op = "touch"
    /\ Compatible(CurrentOp(t).lock, CurrentOp(t).mode)
    /\ handlers' = Advance(handlers, t)
    /\ UNCHANGED <<locks, indexVars, serverVars, callVars>>

\* indexing_complete is not set: the handler goes on without the index
IndexNotComplete(t) ==
    /\ t \in DOMAIN handlers
    /\ CurrentOp(t).op = "acquire_if"
    /\ ~Waiting(t)
    /\ handlers' = Advance(handlers, t)
    /\ UNCHANGED <<locks, indexVars, serverVars, callVars>>

NextLocks ==
    \/ \E prog \in LockPrograms : HandlerStart(prog)
    \/ \E t \in HandlerIds : LockRequest(t)
    \/ \E l \in LockNames : LockGrant(l)
    \/ \E t \in HandlerIds : LockRelease(t)
    \/ \E t \in HandlerIds : DocAccess(t)
    \/ \E t \in HandlerIds : IndexNotComplete(t)

SpecLocks == Init /\ [][NextLocks]_vars

\* ------------------------------------------------------------------------
\* The handlers with their awaits
\* ------------------------------------------------------------------------
MaxSuspended == 2

HandlerRun(prog) ==
    /\ Cardinality(DOMAIN handlers) < MaxSuspended
    /\ LET id == CHOOSE i \in HandlerIds : i \notin DOMAIN handlers
       IN  handlers' = [i \in DOMAIN handlers \cup {id} |->
                           IF i = id THEN prog ELSE handlers[i]]
    /\ UNCHANGED <<locks, indexVars, serverVars, callVars>>

\* the awaited future is ready and the task goes on
ClientAwait(t) ==
    /\ t \in DOMAIN handlers
    /\ CurrentOp(t).op = "await"
    /\ handlers' = Advance(handlers, t)
    /\ UNCHANGED <<locks, indexVars, serverVars, callVars>>

NextHandlers ==
    \/ \E prog \in HandlerPrograms : HandlerRun(prog)
    \/ \E t \in HandlerIds : LockRequest(t)
    \/ \E l \in LockNames : LockGrant(l)
    \/ \E t \in HandlerIds : LockRelease(t)
    \/ \E t \in HandlerIds : DocAccess(t)
    \/ \E t \in HandlerIds : IndexNotComplete(t)
    \/ \E t \in HandlerIds : ClientAwait(t)

SpecHandlers == Init /\ [][NextHandlers]_vars

\* the task is at an await: on the client or a sleep, or on a tokio lock
SuspensionPoint(t) ==
    \/ CurrentOp(t).op = "await"
    \/ CurrentOp(t).op \in {"acquire", "acquire_if"} /\ CurrentOp(t).lock # "document_map"

\* C11: a handler or spawned task that is at an await holds no reference
\* into the document map
NoDocRefAcrossAwait ==
    \A t \in DOMAIN handlers : SuspensionPoint(t) => "document_map" \notin Held(t)

\* did_change holds its entry, with the drop and then the log_message await
\* still to come, while another task is suspended at an await
NoDocRefAcrossAwaitWitness ==
    \E t1, t2 \in DOMAIN handlers :
        /\ handlers[t1] = <<DocDrop, Await>>
        /\ "document_map" \in Held(t1)
        /\ SuspensionPoint(t2)

\* the handler can take its next step
CanStep(t) ==
    IF Waiting(t)
    THEN \E l \in LockNames :
            /\ locks[l].queue # <<>>
            /\ Head(locks[l].queue).task = t
            /\ Compatible(l, Head(locks[l].queue).mode)
    ELSE CurrentOp(t).op = "touch" => Compatible(CurrentOp(t).lock, CurrentOp(t).mode)

\* the lock the handler asks for or waits for
Wants(t, l) == CurrentOp(t).op \in {"acquire", "acquire_if", "touch"} /\ CurrentOp(t).lock = l

\* position of a lock in the order folders, config, index, layout, document map
LockRank(l) ==
    CASE l = "folders" -> 1
      [] l = "config" -> 2
      [] l = "index" -> 3
      [] l = "layout" -> 4
      [] l = "document_map" -> 5

\* C10: some running handler can always take a step (no deadlock), no
\* handler asks or waits for the workspace-index lock while it holds a
\* document-map entry, and every handler asks for locks in one fixed order
\* (so nested acquisitions form no cycle)
NoLockDeadlock ==
    /\ DOMAIN handlers # {} => \E t \in DOMAIN handlers : CanStep(t)
    /\ \A t \in DOMAIN handlers : Wants(t, "index") => "document_map" \notin Held(t)
    /\ \A t \in DOMAIN handlers : \A l \in LockNames :
          Wants(t, l) => \A k \in Held(t) : LockRank(k) < LockRank(l)

\* three handlers in a chain: one waits for the index holding the folders,
\* one holds the index and waits for the layout index, one holds that
NoLockDeadlockWitness ==
    \E t1, t2, t3 \in DOMAIN handlers :
        /\ Queued(t1, "index") /\ "folders" \in Held(t1)
        /\ "index" \in Held(t2) /\ Queued(t2, "layout")
        /\ "layout" \in Held(t3)

\* ------------------------------------------------------------------------
\* The text of one document under did_open and did_change
\* ------------------------------------------------------------------------
MaxEditLen == 4

EditChars == {"d", "c", "\n"}

\* the texts did_open and a change event carry
MaxNewLen == 2

NewTexts == {<<>>, <<"d">>, <<"\n">>, <<"c", "\n">>}

Positions == 0..MaxEditLen

Ranges == {<<l1, c1, l2, c2>> : l1 \in Positions, c1 \in Positions, l2 \in Positions, c2 \in Positions}

Newlines(text) == {i \in DOMAIN text : text[i] = "\n"}

\* LSP positions, by the definition of the protocol: the offset of the
\* first character of a line, and the length of a line without its newline
LineStart(text, line) ==
    IF line = 0 THEN 0
    ELSE CHOOSE i \in Newlines(text) : Cardinality({j \in Newlines(text) : j <= i}) = line

LineLen(text, line) ==
    LET rest == {i \in Newlines(text) : i > LineStart(text, line)}
    IN  IF rest = {} THEN Len(text) - LineStart(text, line)
        ELSE (CHOOSE i \in rest : \A j \in rest : i <= j) - 1 - LineStart(text, line)

PositionInside(text, line, col) ==
    /\ line <= Cardinality(Newlines(text))
    /\ col <= LineLen(text, line)

Offset(text, line, col) == LineStart(text, line) + col

RangeInside(text, range) ==
    /\ PositionInside(text, range[1], range[2])
    /\ PositionInside(text, range[3], range[4])
    /\ Offset(text, range[1], range[2]) <= Offset(text, range[3], range[4])

\* the text the client holds after one change event
ClientText(text, ch) ==
    IF ch.range = NoRange THEN ch.text
    ELSE SubSeq(text, 1, Offset(text, ch.range[1], ch.range[2])) \o ch.text
         \o SubSeq(text, Offset(text, ch.range[3], ch.range[4]) + 1, Len(text))

\* the client sends ranges inside the text it holds, and texts within the bound
EditEvents(text) ==
    {ch \in [range : {r \in Ranges : RangeInside(text, r)} \cup {NoRange}, text : NewTexts] :
        Len(ClientText(text, ch)) <= MaxEditLen}

\* did_open of a BR document, run to its end
EditOpen(text, ok) ==
    /\ UriA \notin DOMAIN document_map
    /\ document_map' = MapInsert(document_map, UriA,
                                 DocumentState("Br", text, text, parse(text, ok)))
    /\ hist' = [hist EXCEPT ![UriA].treeLost = ~ok]
    /\ UNCHANGED <<indexVars, layout_index, indexing_complete, diagnostics_generation,
                   diagnostics_config, tasks, published, notifications, lockVars, callVars>>

\* did_change of the open document, up to the drop of its entry
EditChange(changes, ok) ==
    /\ UriA \in DOMAIN document_map
    /\ changes # <<>>
    /\ document_map' = MapInsert(document_map, UriA,
                                 did_change_document(document_map[UriA], changes, ok))
    /\ hist' = [hist EXCEPT ![UriA] = IF ok THEN @ ELSE HistTreeLost(@)]
    /\ UNCHANGED <<indexVars, layout_index, indexing_complete, diagnostics_generation,
                   diagnostics_config, tasks, published, notifications, lockVars, callVars>>

EditClose ==
    /\ UriA \in DOMAIN document_map
    /\ document_map' = MapRemove(document_map, UriA)
    /\ UNCHANGED <<indexVars, layout_index, indexing_complete, diagnostics_generation,
                   diagnostics_config, tasks, published, notifications, hist, lockVars, callVars>>

NextEditText ==
    \/ \E text \in SeqsUpTo(EditChars, MaxNewLen), ok \in BOOLEAN : EditOpen(text, ok)
    \/ /\ UriA \in DOMAIN document_map
       /\ \E c1 \in EditEvents(document_map[UriA].source), ok \in BOOLEAN :
              \/ EditChange(<<c1>>, ok)
              \/ \E c2 \in EditEvents(ClientText(document_map[UriA].source, c1)) :
                     EditChange(<<c1, c2>>, ok)
    \/ EditClose

SpecEdit == Init /\ [][NextEditText]_vars

\* C12: the rope and the source string of every stored document are identical
RopeEqualsSource ==
    \A u \in DOMAIN document_map : document_map[u].rope = document_map[u].source

\* a text longer than did_open or a full replacement carries: the document
\* is the result of range edits, the last of them on the second line
RopeEqualsSourceWitness ==
    /\ UriA \in DOMAIN document_map
    /\ document_map[UriA].rope = <<"d", "\n", "c", "\n">>
    /\ document_map[UriA].tree # NoTree

\* what the claim expects of new_end_position: the start line plus the
\* newlines of new_text, and the column after its last newline
ExpectedEndPosition(range, new_text) ==
    LET nl == Newlines(new_text)
    IN  IF nl = {} THEN <<range[1], range[2] + Len(new_text)>>
        ELSE <<range[1] + Cardinality(nl),
               Len(new_text) - (CHOOSE i \in nl : \A j \in nl : j <= i)>>

ApplyChangeAsSpecified(text, range, new_text) ==
    LET r == apply_change(text, text, range, new_text)
        from == Offset(text, range[1], range[2])
        to == Offset(text, range[3], range[4])
    IN  /\ r.rope = SubSeq(text, 1, from) \o new_text \o SubSeq(text, to + 1, Len(text))
        /\ r.source = r.rope
        /\ r.edit.start_byte = from
        /\ r.edit.old_end_byte = to
        /\ r.edit.new_end_byte = r.edit.start_byte + Len(new_text)
        /\ r.edit.new_end_position = ExpectedEndPosition(range, new_text)

\* C13: on every text a document can hold, for every range inside it and
\* every new text, apply_change replaces exactly the text between the two
\* positions and returns the InputEdit of that replacement
ApplyChangeReplacesRange ==
    \A u \in DOMAIN document_map :
        \A range \in Ranges, new_text \in SeqsUpTo(EditChars, MaxNewLen) :
            RangeInside(document_map[u].rope, range)
                => ApplyChangeAsSpecified(document_map[u].rope, range, new_text)

\* a three-line text that only range edits produce; ranges across its lines
\* and new texts with and without a newline are applied to it
ApplyChangeWitness ==
    /\ UriA \in DOMAIN document_map
    /\ document_map[UriA].rope = <<"c", "\n", "\n", "d">>
    /\ \E range \in Ranges, new_text \in SeqsUpTo(EditChars, MaxNewLen) :
          /\ RangeInside(document_map[UriA].rope, range)
          /\ range[1] < range[3]
          /\ Newlines(new_text) # {}
          /\ apply_change(document_map[UriA].rope, document_map[UriA].source,
                          range, new_text).edit.new_end_position[2] = 1

\* C14: the tree of a document, reached by any sequence of edits through
\* apply_change, Tree::edit and the incremental reparse, has the
\* s-expression of a parse from scratch of the document's source
IncrementalMatchesFull ==
    \A u \in DOMAIN document_map :
        document_map[u].tree # NoTree
            => to_sexp(document_map[u].tree) = to_sexp(parse(document_map[u].source, TRUE))

\* a document that kept a tree from did_open on, so that each did_change
\* reparsed incrementally, grown by range edits to two statements on two lines
IncrementalMatchesFullWitness ==
    /\ UriA \in DOMAIN document_map
    /\ ~hist[UriA].treeLost
    /\ document_map[UriA].tree # NoTree
    /\ document_map[UriA].source = <<"c", "\n", "d", "\n">>

\* a did_change notification for u arrives in this step
DidChangeArrives(u) == hist'[u].arrN = hist[u].arrN + 1

\* C15: a did_change whose reparse fails, on a BR document that had a tree,
\* leaves the document with a tree and the index as it was
FailedReparseKeepsTree ==
    [][\A u \in DocUris :
          (/\ DidChangeArrives(u)
           /\ u \in DOMAIN document_map
           /\ document_map[u].kind = "Br"
           /\ document_map[u].tree # NoTree)
          => /\ u \in DOMAIN document_map'
             /\ document_map'[u].tree # NoTree
             /\ definitions' = definitions]_vars

\* ------------------------------------------------------------------------
\* diagnostics.rs : check_missing_fnend
\* ------------------------------------------------------------------------
MaxNodes == 3

FunctionNames == {"fnA", "fnB"}

\* the nodes the query captures: def_statement (multi-line or inline),
\* fnend_statement, end_def_statement, each at its start byte
QueryNodes(bytes) ==
    [kind : {"def_statement"}, inline : BOOLEAN, name : FunctionNames, start_byte : bytes]
    \cup [kind : {"fnend_statement", "end_def_statement"}, inline : {FALSE},
          name : {""}, start_byte : bytes]

\* the matches of a file, in the order the cursor yields them: no two nodes
\* start at the same byte
QueryMatches ==
    {ms \in SeqsUpTo(QueryNodes(1..MaxNodes), MaxNodes) :
        \A i, j \in DOMAIN ms : i # j => ms[i].start_byte # ms[j].start_byte}

is_inline_def(node) == node.inline

CloseEntry(node) == [start_byte |-> node.start_byte, entry |-> "Close", range |-> 0, name |-> ""]

\* an inline def that leaves no entry
inline_def_ignored(node) == <<>>

\* "Inline defs still close any open function"
inline_def_entry(node) == <<CloseEntry(node)>>

\* the body of the loop over the matches: the entries one match pushes
match_entries(node) ==
    IF node.kind = "def_statement"
    THEN IF is_inline_def(node) THEN inline_def_entry(node)
         ELSE <<[start_byte |-> node.start_byte, entry |-> "Def",
                 range |-> node.start_byte, name |-> node.name]>>
    ELSE <<CloseEntry(node)>>

RECURSIVE collect_entries(_)
collect_entries(matches) ==
    IF matches = <<>> THEN <<>>
    ELSE match_entries(Head(matches)) \o collect_entries(Tail(matches))

\* entries.sort_by_key(|(byte, _)| *byte) : a stable sort
RECURSIVE sort_by_key(_)
sort_by_key(entries) ==
    IF entries = <<>> THEN <<>>
    ELSE LET first == CHOOSE i \in DOMAIN entries :
                         \A j \in DOMAIN entries :
                             \/ entries[i].start_byte < entries[j].start_byte
                             \/ entries[i].start_byte = entries[j].start_byte /\ i <= j
         IN  <<entries[first]>>
             \o sort_by_key([k \in 1..(Len(entries) - 1) |->
                                IF k < first THEN entries[k] ELSE entries[k + 1]])

NoOpenDef == [entry |-> "None"]

MissingFnend(def) ==
    [range |-> def.range, severity |-> "ERROR",
     message |-> <<"Function '", def.name, "' is missing FNEND">>]

\* the loop over the sorted entries and the flush of an open def at the end
RECURSIVE scan_entries(_, _)
scan_entries(entries, open_def) ==
    IF entries = <<>>
    THEN IF open_def # NoOpenDef THEN <<MissingFnend(open_def)>> ELSE <<>>
    ELSE IF Head(entries).entry = "Def"
         THEN (IF open_def # NoOpenDef THEN <<MissingFnend(open_def)>> ELSE <<>>)
              \o scan_entries(Tail(entries), [entry |-> "Def", range |-> Head(entries).range,
                                              name |-> Head(entries).name])
         ELSE scan_entries(Tail(entries), NoOpenDef)

check_missing_fnend(matches) == scan_entries(sort_by_key(collect_entries(matches)), NoOpenDef)

InitFnend ==
    /\ InitServer
    /\ args \in [fn : {"check_missing_fnend"}, matches : QueryMatches]
    /\ result = NoCall

CheckMissingFnend == Returns("check_missing_fnend", check_missing_fnend(args.matches))

NextFnend == CheckMissingFnend

SpecFnend == InitFnend /\ [][NextFnend]_vars

\* the captured nodes in the order of the file
InDocumentOrder(matches) ==
    [k \in DOMAIN matches |->
        matches[CHOOSE i \in DOMAIN matches :
                    Cardinality({j \in DOMAIN matches :
                                    matches[j].start_byte < matches[i].start_byte}) = k - 1]]

IsMultiLineDef(node) == node.kind = "def_statement" /\ ~node.inline

\* a multi-line def whose next event is another multi-line def or the end
Unclosed(ordered, i) ==
    /\ IsMultiLineDef(ordered[i])
    /\ i = Len(ordered) \/ IsMultiLineDef(ordered[i + 1])

\* C16: check_missing_fnend returns exactly one Error "Function '<name>' is
\* missing FNEND" for each multi-line def that no FNEND, END DEF or inline
\* def closes before the next multi-line def or the end, and nothing else
MissingFnendExactlyUnclosed ==
    result # NoCall /\ result.fn = "check_missing_fnend" =>
        LET ordered == InDocumentOrder(args.matches)
            diags == result.value
        IN  /\ \A i \in DOMAIN ordered :
                   Cardinality({k \in DOMAIN diags : diags[k].range = ordered[i].start_byte})
                       = IF Unclosed(ordered, i) THEN 1 ELSE 0
            /\ \A k \in DOMAIN diags :
                   \E i \in DOMAIN ordered :
                       /\ Unclosed(ordered, i)
                       /\ diags[k] = [range |-> ordered[i].start_byte, severity |-> "ERROR",
                                      message |-> <<"Function '", ordered[i].name,
                                                    "' is missing FNEND">>]

\* matches that arrive out of file order: def fnA, an inline def that closes
\* it, then def fnB, which alone is reported
MissingFnendWitness ==
    /\ result # NoCall
    /\ result.fn = "check_missing_fnend"
    /\ Len(args.matches) = 3
    /\ args.matches[1].start_byte = 3
    /\ LET ordered == InDocumentOrder(args.matches)
       IN  /\ IsMultiLineDef(ordered[1]) /\ ordered[1].name = "fnA"
           /\ ordered[2].kind = "def_statement" /\ ordered[2].inline
           /\ IsMultiLineDef(ordered[3])
    /\ Len(result.value) = 1
    /\ result.value[1].message = <<"Function '", "fnB", "' is missing FNEND">>

\* ------------------------------------------------------------------------
\* references.rs : find_references of a variable X, filter_by_scope
\* ------------------------------------------------------------------------
MaxItems == 5

\* the statements of a file that matter for the scope of X:
\*   "p" def statement with parameter X    "d" def statement without X
\*   "u" a statement that uses X           "f" FNEND       "e" END DEF
ScopeItems == {"p", "d", "u", "f", "e"}

\* every multi-line def is closed by FNEND or END DEF before the next def
RECURSIVE WellFormed(_, _)
WellFormed(file, open) ==
    IF file = <<>> THEN ~open
    ELSE IF Head(file) \in {"p", "d"} THEN ~open /\ WellFormed(Tail(file), TRUE)
    ELSE IF Head(file) \in {"f", "e"} THEN open /\ WellFormed(Tail(file), FALSE)
    ELSE WellFormed(Tail(file), open)

ScopeFiles == {file \in SeqsUpTo(ScopeItems, MaxItems) : WellFormed(file, FALSE)}

\* statement i starts at byte 2i; the parameter of a def is at byte 2i + 1
StatementByte(i) == 2 * i

ParameterByte(i) == 2 * i + 1

\* run_query("(line (def_statement) @def) (fnend_statement) @fnend")
function_query(file) ==
    LET hits == SelectSeq([i \in DOMAIN file |-> [item |-> file[i], at |-> i]],
                          LAMBDA h : h.item \in {"p", "d", "f"})
    IN  [k \in DOMAIN hits |->
            [kind |-> IF hits[k].item = "f" THEN "fnend_statement" ELSE "def_statement",
             start_byte |-> StatementByte(hits[k].at)]]

NoPendingDef == [kind |-> "none"]

RECURSIVE function_ranges(_, _)
function_ranges(results, pending_def) ==
    IF results = <<>> THEN <<>>
    ELSE LET r == Head(results)
         IN  IF r.kind = "def_statement" THEN function_ranges(Tail(results), r)
             ELSE IF pending_def # NoPendingDef
                  THEN <<[def_start_byte |-> pending_def.start_byte,
                          body_end_byte |-> r.start_byte]>>
                       \o function_ranges(Tail(results), NoPendingDef)
                  ELSE function_ranges(Tail(results), NoPendingDef)

get_function_ranges(file) == function_ranges(function_query(file), NoPendingDef)

\* run_query("(parameter) @param") : the parameters named X
parameter_query(file) == {ParameterByte(i) : i \in {j \in DOMAIN file : file[j] = "p"}}

\* the name query of find_references: every occurrence of X, in file order
name_query(file) ==
    LET hits == SelectSeq([i \in DOMAIN file |-> [item |-> file[i], at |-> i]],
                          LAMBDA h : h.item \in {"p", "u"})
    IN  [k \in DOMAIN hits |-> IF hits[k].item = "p" THEN ParameterByte(hits[k].at)
                               ELSE StatementByte(hits[k].at)]

is_param_of_function(file, def_start_byte, body_end_byte) ==
    \E b \in parameter_query(file) : ~(b < def_start_byte \/ b > body_end_byte)

\* position of the first range that contains the byte, 0 for None
in_function(byte_offset, ranges) ==
    LET inside == {k \in DOMAIN ranges : /\ byte_offset >= ranges[k].def_start_byte
                                         /\ byte_offset <= ranges[k].body_end_byte}
    IN  IF inside = {} THEN 0 ELSE CHOOSE k \in inside : \A j \in inside : k <= j

filter_by_scope(file, cursor_byte, results) ==
    LET fn_ranges == get_function_ranges(file)
        cursor_fn_idx == in_function(cursor_byte, fn_ranges)
        is_cursor_param ==
            IF cursor_fn_idx # 0
            THEN is_param_of_function(file, fn_ranges[cursor_fn_idx].def_start_byte,
                                      fn_ranges[cursor_fn_idx].body_end_byte)
            ELSE FALSE
    IN  IF is_cursor_param
        THEN SelectSeq(results,
                       LAMBDA r : /\ r >= fn_ranges[cursor_fn_idx].def_start_byte
                                  /\ r <= fn_ranges[cursor_fn_idx].body_end_byte)
        ELSE SelectSeq(results,
                       LAMBDA r : LET idx == in_function(r, fn_ranges)
                                  IN  IF idx # 0
                                      THEN ~is_param_of_function(file,
                                                fn_ranges[idx].def_start_byte,
                                                fn_ranges[idx].body_end_byte)
                                      ELSE TRUE)

find_references(file, cursor_byte) == filter_by_scope(file, cursor_byte, name_query(file))

InitReferences ==
    /\ InitServer
    /\ args \in {a \in [fn : {"find_references"}, file : ScopeFiles,
                       cursor : 1..(2 * MaxItems + 1)] :
                    \E k \in DOMAIN name_query(a.file) : name_query(a.file)[k] = a.cursor}
    /\ result = NoCall

FindReferences == Returns("find_references", find_references(args.file, args.cursor))

NextReferences == FindReferences

SpecReferences == InitReferences /\ [][NextReferences]_vars

\* the functions of a file: each def statement up to its terminator
FunctionExtents(file) ==
    {[def |-> i, from |-> StatementByte(i),
      to |-> StatementByte(CHOOSE j \in DOMAIN file :
                               /\ j > i
                               /\ file[j] \in {"f", "e"}
                               /\ \A k \in (i + 1)..(j - 1) : file[k] \notin {"f", "e"})] :
        i \in {d \in DOMAIN file : file[d] \in {"p", "d"}}}

Inside(byte, F) == F.from <= byte /\ byte <= F.to

\* C17: from a cursor on parameter X of F every reported reference lies
\* inside F; from a cursor on X outside every function no reported
\* reference lies inside a function that has X as parameter
ReferencesRespectScope ==
    result # NoCall /\ result.fn = "find_references" =>
        LET functions == FunctionExtents(args.file)
            with_param == {F \in functions : args.file[F.def] = "p"}
        IN  /\ \A F \in with_param :
                   Inside(args.cursor, F)
                       => \A k \in DOMAIN result.value : Inside(result.value[k], F)
            /\ (\A F \in functions : ~Inside(args.cursor, F))
                   => \A k \in DOMAIN result.value :
                          \A F \in with_param : ~Inside(result.value[k], F)

\* ------------------------------------------------------------------------
\* diagnostics.rs : check_parameter_count for a call of a user function
\* ------------------------------------------------------------------------
MaxParams == 2

MaxArgTokens == 3

ParamKinds == {"Numeric", "String", "StringArray"}

ParamInfos == [kind : ParamKinds, is_optional : BOOLEAN]

\* the same-file definitions extract_definitions returns: none or one def fnA
LocalDefs ==
    {<<>>} \cup {<<d>> : d \in [name : {NameDefined}, is_import_only : BOOLEAN,
                                has_param_substitution : BOOLEAN,
                                params : SeqsUpTo(ParamInfos, MaxParams)]}

NameOther == <<"f", "n", "B">>

\* the children of an arguments node: "n" a numeric argument, "s" a string
\* argument, "," a comma; two arguments are always separated by a comma
ArgumentChildren ==
    {ts \in SeqsUpTo({"n", "s", ","}, MaxArgTokens) :
        \A i \in 1..(Len(ts) - 1) : ts[i] = "," \/ ts[i + 1] = ","}

\* a numeric_user_function / string_user_function node, with or without
\* an arguments child
UserCalls ==
    [name : {NameCalled, NameOther}, has_arguments : {TRUE}, children : ArgumentChildren]
    \cup [name : {NameCalled, NameOther}, has_arguments : {FALSE}, children : {<<>>}]

\* an argument count that leaves out the empty positions
count_arguments_present(children) == Len(SelectSeq(children, LAMBDA c : c # ","))

count_arg_positions(children) ==
    LET commas == Len(SelectSeq(children, LAMBDA c : c = ","))
        has_argument == \E i \in DOMAIN children : children[i] # ","
    IN  IF commas = 0 /\ ~has_argument THEN 0 ELSE commas + 1

\* collect_argument_nodes : (position, argument or "" for an empty position)
RECURSIVE argument_nodes(_, _, _)
argument_nodes(children, pos, acc) ==
    LET unseen == acc = <<>> \/ acc[Len(acc)].pos # pos
    IN  IF children = <<>>
        THEN IF pos > 0 /\ unseen THEN Append(acc, [pos |-> pos, arg |-> ""]) ELSE acc
        ELSE IF Head(children) # ","
             THEN argument_nodes(Tail(children), pos, Append(acc, [pos |-> pos, arg |-> Head(children)]))
             ELSE argument_nodes(Tail(children), pos + 1,
                                 IF unseen THEN Append(acc, [pos |-> pos, arg |-> ""]) ELSE acc)

collect_argument_nodes(children) == argument_nodes(children, 0, <<>>)

argument_type(arg) == IF arg = "n" THEN "Numeric" ELSE "String"

types_compatible(expected, actual) ==
    \/ expected = actual
    \/ expected = "NumericArray" /\ actual = "Numeric"
    \/ expected = "StringArray" /\ actual = "String"

\* def_map.entry(name.to_ascii_lowercase()).or_insert(def) : the first def of a name
def_map_get(local_defs, key) ==
    LET same == {i \in DOMAIN local_defs : to_ascii_lowercase(local_defs[i].name) = key}
    IN  IF same = {} THEN NoDef ELSE local_defs[CHOOSE i \in same : \A j \in same : i <= j]

CountDiagnostic(fn_name, required, total, arg_count) ==
    [severity |-> "WARNING", check |-> "count", name |-> fn_name,
     expected |-> IF required = total THEN <<required>> ELSE <<required, total>>,
     provided |-> arg_count]

TypeDiagnostic(pos, expected, actual) ==
    [severity |-> "WARNING", check |-> "type", position |-> pos + 1,
     expected |-> expected, got |-> actual]

\* the type checks of a call whose count is accepted
type_diagnostics(def, children) ==
    LET arg_nodes == collect_argument_nodes(children)
        wrong == SelectSeq(arg_nodes,
                           LAMBDA a : /\ a.arg # ""
                                      /\ a.pos + 1 <= Len(def.params)
                                      /\ ~types_compatible(def.params[a.pos + 1].kind,
                                                           argument_type(a.arg)))
    IN  [k \in DOMAIN wrong |-> TypeDiagnostic(wrong[k].pos, def.params[wrong[k].pos + 1].kind,
                                               argument_type(wrong[k].arg))]

\* check_parameter_count, for one call of a user function
check_parameter_count(local_defs, call) ==
    LET arg_count == IF call.has_arguments THEN count_arg_positions(call.children) ELSE 0
        def == def_map_get(local_defs, to_ascii_lowercase(call.name))
    IN  IF def = NoDef THEN <<>>
        ELSE IF def.has_param_substitution \/ def.is_import_only THEN <<>>
        ELSE LET required == Len(SelectSeq(def.params, LAMBDA q : ~q.is_optional))
                 total == Len(def.params)
             IN  IF arg_count < required \/ arg_count > total
                 THEN <<CountDiagnostic(call.name, required, total, arg_count)>>
                 ELSE IF call.has_arguments THEN type_diagnostics(def, call.children)
                 ELSE <<>>

InitParameterCount ==
    /\ InitServer
    /\ args \in [fn : {"check_parameter_count"}, local_defs : LocalDefs, call : UserCalls]
    /\ result = NoCall

CheckParameterCount ==
    Returns("check_parameter_count", check_parameter_count(args.local_defs, args.call))

NextParameterCount == CheckParameterCount

SpecParameterCount == InitParameterCount /\ [][NextParameterCount]_vars

\* the argument count of the claim: 0 for empty or missing parentheses,
\* the number of commas plus one otherwise
ArgumentCount(call) ==
    IF ~call.has_arguments \/ call.children = <<>> THEN 0
    ELSE Cardinality({i \in DOMAIN call.children : call.children[i] = ","}) + 1

\* the same-file definitions of the called name
DefinitionsOf(local_defs, call) ==
    {i \in DOMAIN local_defs :
        to_ascii_lowercase(local_defs[i].name) = to_ascii_lowercase(call.name)}

candidates_of(entries, exclude_uri) ==
    SelectSeq(entries, LAMBDA e : e.uri # exclude_uri /\ ~e.def.is_import_only)

\* a pick that takes the first candidate whatever its is_library flag
pick_first(candidates) == candidates[1]

\* "Prefer is_library entry, otherwise take the first"
pick_preferred(candidates) ==
    LET library == {i \in DOMAIN candidates : candidates[i].def.is_library}
    IN  IF library = {} THEN candidates[1]
        ELSE candidates[CHOOSE i \in library : \A j \in library : i <= j]

\* filter_map over definitions.values(), the names taken in some order
RECURSIVE unique_over(_, _, _)
unique_over(idx, keys, exclude_uri) ==
    IF keys = {} THEN <<>>
    ELSE LET key == CHOOSE k \in keys : TRUE
             candidates == candidates_of(idx[key], exclude_uri)
         IN  (IF candidates = <<>> THEN <<>> ELSE <<pick_preferred(candidates)>>)
             \o unique_over(idx, keys \ {key}, exclude_uri)

unique_functions(idx, exclude_uri) == unique_over(idx, DOMAIN idx, exclude_uri)

\* an entry the claim calls eligible
Eligible(e, exclude_uri) == e.uri # exclude_uri /\ ~e.def.is_import_only

NameKey(e) == to_ascii_lowercase(e.def.name)

\* C19: unique_functions(exclude_uri) returns at most one entry per
\* lowercased name, no entry of exclude_uri and no import-only entry, an
\* entry for every name that has an eligible definition, and an is_library
\* entry whenever an eligible is_library definition of the name exists
UniqueFunctionsContract ==
    \A exclude_uri \in AllUris :
        LET found == unique_functions(definitions, exclude_uri)
            all == UNION {Range(definitions[k]) : k \in DOMAIN definitions}
        IN  /\ \A i, j \in DOMAIN found : NameKey(found[i]) = NameKey(found[j]) => i = j
            /\ \A i \in DOMAIN found : found[i] \in all /\ Eligible(found[i], exclude_uri)
            /\ \A e \in all :
                   Eligible(e, exclude_uri)
                       => \E i \in DOMAIN found :
                              /\ NameKey(found[i]) = NameKey(e)
                              /\ e.def.is_library => found[i].def.is_library

\* fnA is defined in a.brs and, later in the list, as a library function in
\* lib.brs: asked from the layout file, the library entry is returned
UniqueFunctionsWitness ==
    LET entries == lookup(definitions, <<"f", "n", "a">>)
    IN  /\ Len(entries) >= 2
        /\ entries[1].uri = UriA /\ ~entries[1].def.is_library /\ ~entries[1].def.is_import_only
        /\ entries[2].uri = UriLib /\ entries[2].def.is_library /\ ~entries[2].def.is_import_only
        /\ \E i \in DOMAIN unique_functions(definitions, UriLay) :
              unique_functions(definitions, UriLay)[i] = entries[2]
        /\ unique_functions(definitions, UriLib) = <<entries[1]>>

\* ------------------------------------------------------------------------
\* backend.rs : pull_diagnostics_config against every answer of the client
\* ------------------------------------------------------------------------
ConfigKeys == {"syntax", "functions", "undefinedFunctions", "unusedVariables"}

\* a request error, an empty list of values, a value that is no object, or an
\* object in which each key is absent, a boolean or some other value
ConfigurationAnswers ==
    {[kind |-> "error"], [kind |-> "empty"], [kind |-> "value"]}
    \cup {[kind |-> "object", fields |-> f] :
             f \in UNION {[K -> {Bool(TRUE), Bool(FALSE), NotBool}] : K \in SUBSET ConfigKeys}}

\* pull_diagnostics_config from the answer of client.configuration on
PullDiagnosticsConfig(resp) ==
    /\ diagnostics_config' = pull_diagnostics_config(diagnostics_config, resp)
    /\ args' = [fn |-> "pull_diagnostics_config", config |-> diagnostics_config, resp |-> resp]
    /\ UNCHANGED <<indexVars, document_map, layout_index, indexing_complete,
                   diagnostics_generation, tasks, published, notifications, hist,
                   lockVars, result>>

NextConfig == \E resp \in ConfigurationAnswers : PullDiagnosticsConfig(resp)

SpecConfig == Init /\ [][NextConfig]_vars

\* the flag of a configuration that belongs to a key of the settings object
FlagOf(config, key) ==
    CASE key = "syntax" -> config.syntax
      [] key = "functions" -> config.functions
      [] key = "undefinedFunctions" -> config.undefined_functions
      [] key = "unusedVariables" -> config.unused_variables

\* C20: a failed pull and a pull without value leave the four flags as they
\* were; a pull that succeeds overwrites exactly the flags whose field is
\* present with a boolean value
ConfigPullKeepsOtherFlags ==
    args.fn = "pull_diagnostics_config" =>
        \A key \in ConfigKeys :
            LET given == /\ args.resp.kind = "object"
                         /\ key \in DOMAIN args.resp.fields
                         /\ args.resp.fields[key] \in {Bool(TRUE), Bool(FALSE)}
            IN  FlagOf(diagnostics_config, key)
                    = IF given THEN args.resp.fields[key].bool ELSE FlagOf(args.config, key)

\* syntax is switched off, functions comes with a value that is no boolean,
\* the other two keys are absent and keep a FALSE and a TRUE of earlier pulls
ConfigPullWitness ==
    /\ args.fn = "pull_diagnostics_config"
    /\ args.resp.kind = "object"
    /\ DOMAIN args.resp.fields = {"syntax", "functions"}
    /\ args.resp.fields["syntax"] = Bool(FALSE)
    /\ args.resp.fields["functions"] = NotBool
    /\ args.config = [syntax |-> TRUE, functions |-> FALSE, undefined_functions |-> FALSE,
                      unused_variables |-> TRUE]
    /\ diagnostics_config = [syntax |-> FALSE, functions |-> FALSE,
                             undefined_functions |-> FALSE, unused_variables |-> TRUE]

\* ------------------------------------------------------------------------
\* The index entries of an open document after its last did_change
\* ------------------------------------------------------------------------
\* the definitions the index holds for a URI under one name
EntriesOf(idx, u, key) ==
    IF key \in DOMAIN idx
    THEN LET mine == SelectSeq(idx[key], LAMBDA e : e.uri = u)
         IN  [i \in DOMAIN mine |-> mine[i].def]
    ELSE <<>>

\* the index holds for u exactly the definitions of defs
IndexMatches(idx, u, defs) ==
    \A key \in DOMAIN idx \cup {to_ascii_lowercase(defs[i].name) : i \in DOMAIN defs} :
        EntriesOf(idx, u, key)
            = SelectSeq(defs, LAMBDA d : to_ascii_lowercase(d.name) = key)

\* a BR document that is open with a tree, edited at least once through
\* did_change while it was in the map and always parsed, and no handler or
\* task of it is left
SettledAfterChange(u) ==
    /\ hist[u].schedN >= 1
    /\ ~hist[u].closed
    /\ ~hist[u].raced
    /\ ~hist[u].treeLost
    /\ Quiescent(u)
    /\ u \in DOMAIN document_map
    /\ document_map[u].kind = "Br"
    /\ document_map[u].tree # NoTree

\* C21: once every task of an open BR document with a tree has finished
\* after its last did_change, the index entries of its URI are the
\* definitions of the stored content
IndexFollowsLastChange ==
    \A u \in DocUris :
        SettledAfterChange(u)
            => IndexMatches(definitions, u,
                            extract_definitions(document_map[u].tree, document_map[u].source))

\* ------------------------------------------------------------------------
\* indexing_complete and the writes of the startup scan
\* ------------------------------------------------------------------------
\* the startup scan has made its add_file calls: no initialized handler and
\* no scan task is still before or at the loop over the folders
ScanWritesApplied ==
    \A t \in DOMAIN tasks :
        /\ tasks[t].kind # "initialized"
        /\ tasks[t].kind = "scan" => tasks[t].pc # "sc_index"

\* a step that changes the flag sets it, and is the store of the scan task
FlagStoredByScan ==
    indexing_complete' # indexing_complete
        => /\ ~indexing_complete
           /\ indexing_complete'
           /\ \E t \in DOMAIN tasks : tasks[t].kind = "scan" /\ tasks[t].pc = "sc_store"

\* C22: while indexing_complete is true every add_file of the startup scan
\* has been applied; the flag changes only from false to true, by the store
\* at the end of the scan task
IndexingCompleteAfterScan ==
    /\ [](indexing_complete => ScanWritesApplied)
    /\ [][FlagStoredByScan]_vars

\* the flag is set and the index holds what the scan read from the disk
IndexingCompleteWitness ==
    /\ indexing_complete
    /\ DiskDefs # <<>>
    /\ IndexMatches(definitions, UriLib, DiskDefs)

\* ------------------------------------------------------------------------
\* did_change: the changes of one notification
\* ------------------------------------------------------------------------
\* the most changes one notification carries
MaxChanges == 2

\* the document after each change of the loop over params.content_changes
content_change_steps(doc, changes) ==
    [i \in DOMAIN changes |-> apply_content_changes(doc, SubSeq(changes, 1, i))]

\* let incremental = doc.tree.is_some(): the old tree handed to parser::parse
incremental(doc, changes) == apply_content_changes(doc, changes).tree # NoTree

\* the change lists a client holding text may send in one notification
RECURSIVE NotificationsOf(_, _)
NotificationsOf(text, n) ==
    IF n = 0 THEN {<<>>}
    ELSE {<<>>} \cup UNION {{<<ch>> \o rest : rest \in NotificationsOf(ClientText(text, ch), n - 1)} :
                              ch \in EditEvents(text)}

\* the calls with at most n changes
DidChangeInputs(n) ==
    UNION {[fn : {"did_change_document"},
            doc : {DocumentState("Br", text, text, tree) : tree \in {NoTree, parse(text, TRUE)}},
            changes : NotificationsOf(text, n) \ {<<>>},
            ok : BOOLEAN] : text \in NewTexts}

InitDidChange ==
    /\ InitServer
    /\ args \in DidChangeInputs(MaxChanges)
    /\ result = NoCall

DidChangeDocument ==
    Returns("did_change_document",
            [doc |-> did_change_document(args.doc, args.changes, args.ok),
             steps |-> content_change_steps(args.doc, args.changes),
             incremental |-> incremental(args.doc, args.changes)])

NextDidChange == DidChangeDocument

SpecDidChange == InitDidChange /\ [][NextDidChange]_vars

\* C23: within one did_change notification a change without a range
\* replaces rope and source by its text and drops the tree; the reparse gets
\* an old tree exactly when the document had a tree and every change of the
\* notification has a range; a range change after a full-text change edits
\* the text and leaves the document without a tree
FullChangeDropsTree ==
    result.fn = "did_change_document" =>
        LET changes == args.changes
            steps == result.value.steps
            before(i) == IF i = 1 THEN args.doc ELSE steps[i - 1]
        IN  /\ \A i \in DOMAIN changes :
                  changes[i].range = NoRange
                      => /\ steps[i].rope = changes[i].text
                         /\ steps[i].source = changes[i].text
                         /\ steps[i].tree = NoTree
            /\ result.value.incremental
                  <=> /\ args.doc.tree # NoTree
                      /\ \A i \in DOMAIN changes : changes[i].range # NoRange
            /\ \A i \in DOMAIN changes, j \in DOMAIN changes :
                  (i < j /\ changes[i].range = NoRange /\ changes[j].range # NoRange)
                      => /\ steps[j].tree = NoTree
                         /\ steps[j].source = ClientText(before(j).source, changes[j])
                         /\ steps[j].rope = steps[j].source

\* a document with a tree got a full-text change followed by a range change
\* that alters the text
FullChangeWitness ==
    /\ result.fn = "did_change_document"
    /\ args.doc.tree # NoTree
    /\ Len(args.changes) = 2
    /\ args.changes[1].range = NoRange
    /\ args.changes[2].range # NoRange
    /\ result.value.doc.source # args.changes[1].text
    /\ ~result.value.incremental

\* ------------------------------------------------------------------------
\* did_change_workspace_folders: removed folders
\* ------------------------------------------------------------------------
\* URIs as the strings the client sends, one character per element
FolderA == <<"w", "/", "a">>

FolderAB == <<"w", "/", "a", "b">>

FolderB == <<"w", "/", "b">>

FolderPool == {FolderA, FolderAB, FolderB}

\* one file on the disk of each folder
FolderFile == [f \in FolderPool |-> f \o <<"/", "x">>]

FolderFileDefs ==
    {<<>>, <<FunctionDef(<<"f", "n", "A">>, FALSE, FALSE)>>,
     <<FunctionDef(<<"f", "n", "A">>, TRUE, FALSE), FunctionDef(<<"f", "n", "B">>, FALSE, FALSE)>>}

\* str::starts_with
starts_with(s, prefix) ==
    /\ Len(prefix) <= Len(s)
    /\ SubSeq(s, 1, Len(prefix)) = prefix

\* WorkspaceIndex::all_symbols
all_symbols(idx) == UNION {Range(idx[k]) : k \in DOMAIN idx}

\* the URIs the filter over all_symbols collects for one removed folder
to_remove(idx, folder_str) ==
    {sym.uri : sym \in {e \in all_symbols(idx) : starts_with(e.uri, folder_str)}}

RECURSIVE remove_files(_, _)
remove_files(idx, uris) ==
    IF uris = {} THEN idx
    ELSE LET uri == CHOOSE u \in uris : TRUE
         IN  remove_files(remove_file(idx, uri), uris \ {uri})

\* the loop over event.removed, with both write locks held
RECURSIVE remove_folders(_, _, _)
remove_folders(folders, idx, removed) ==
    IF removed = <<>> THEN [folders |-> folders, index |-> idx]
    ELSE remove_folders(SelectSeq(folders, LAMBDA f : f # Head(removed)),
                        remove_files(idx, to_remove(idx, Head(removed))),
                        Tail(removed))

\* the index after the scans of the folders of the workspace
ScannedIndex(defs) ==
    add_file(add_file(add_file(EmptyIndex, FolderFile[FolderA], defs[FolderA]),
                      FolderFile[FolderAB], defs[FolderAB]),
             FolderFile[FolderB], defs[FolderB])

InitFolders ==
    /\ InitServer
    /\ args \in {a \in [fn : {"did_change_workspace_folders"},
                         folders : {<<FolderA, FolderAB, FolderB>>, <<FolderB, FolderA>>,
                                    <<FolderAB, FolderB>>},
                         index : {ScannedIndex(defs) : defs \in [FolderPool -> FolderFileDefs]},
                         removed : {<<f>> : f \in FolderPool}
                                   \cup {<<f, g>> : f \in FolderPool, g \in FolderPool}] :
                      \* only the folders of the workspace were scanned
                      \A e \in all_symbols(a.index) :
                          \E f \in Range(a.folders) : e.uri = FolderFile[f]}
    /\ result = NoCall

\* did_change_workspace_folders with event.removed, after its two lock awaits
DidChangeWorkspaceFolders ==
    Returns("did_change_workspace_folders",
            remove_folders(args.folders, args.index, args.removed))

NextFolders == DidChangeWorkspaceFolders

SpecFolders == InitFolders /\ [][NextFolders]_vars

\* a file lies inside a folder: below it in the path
UnderFolder(uri, folder) ==
    starts_with(uri, IF folder[Len(folder)] = "/" THEN folder ELSE folder \o <<"/">>)

\* C24: after the removal of folder F no index entry has a URI that begins
\* with F's URI, F is not in the folder list, and the entries of every file
\* that is inside no removed folder are unchanged
FolderRemovalFrame ==
    result.fn = "did_change_workspace_folders" =>
        /\ \A f \in Range(args.removed) :
              /\ \A e \in all_symbols(result.value.index) : ~starts_with(e.uri, f)
              /\ f \notin Range(result.value.folders)
        /\ \A g \in FolderPool :
              (\A f \in Range(args.removed) : ~UnderFolder(FolderFile[g], f))
                  => \A key \in DOMAIN args.index \cup DOMAIN result.value.index :
                        EntriesOf(result.value.index, FolderFile[g], key)
                            = EntriesOf(args.index, FolderFile[g], key)

\* ------------------------------------------------------------------------
\* src/src/layout.rs : parse
\* ------------------------------------------------------------------------
\* A trimmed line is the sequence of its comma-separated cells, each cell
\* trimmed; a part of a split is the sequence of the cells it spans.
MaxLines == 4

BlankLine == <<"">>

LinePool ==
    {BlankLine, <<"!c">>, <<"!c", "q", "7">>, <<"#EOF#">>, <<"---">>, <<"RECL=5">>,
     <<"p", "q", "7">>, <<"p", "q", "7", "x">>, <<"", "q">>, <<"k", "q">>}

\* the sources of at most n lines
LayoutSources(n) == UNION {[1..k -> LinePool] : k \in 0..n}

\* str::splitn(n, ',') : the last part takes the rest of the line
splitn(line, n) ==
    IF Len(line) <= n THEN [i \in DOMAIN line |-> <<line[i]>>]
    ELSE [i \in 1..n |-> IF i < n THEN <<line[i]>> ELSE SubSeq(line, n, Len(line))]

\* str::split(',')
split(line) == [i \in DOMAIN line |-> <<line[i]>>]

\* str::parse::<u32>().ok() of a trimmed part
parse_u32(part) ==
    IF part = <<"7">> THEN <<7>>
    ELSE IF part = <<"RECL=5">> THEN <<5>>
    ELSE <<>>

\* trimmed.starts_with('!')
starts_with_bang(line) == line[1] = "!c"

\* trimmed.eq_ignore_ascii_case("#eof#")
is_eof_marker(line) == line \in {<<"#eof#">>, <<"#EOF#">>}

\* a line that never counts as a separator
never_separator(line) == FALSE

\* is_separator: a non-empty line of '-' and '=' only
is_separator(line) == line = <<"---">>

\* trimmed.to_ascii_lowercase().starts_with("recl")
starts_with_recl(line) == line[1] \in {"recl=5", "RECL=5"}

\* parse_recl_value: the number after "recl", '=' and blanks, to the line's end
parse_recl_value(line) == IF Len(line) = 1 THEN parse_u32(<<line[1]>>) ELSE <<>>

part_or_default(parts, i) == IF i \in DOMAIN parts THEN parts[i] ELSE <<"">>

LayoutKey(path, key_fields) == [path |-> path, key_fields |-> key_fields]

LayoutSubscript(name, description, format) ==
    [name |-> name, description |-> description, format |-> format]

\* the locals of parse before the loop
ParseStart ==
    [state |-> "Initial", path |-> <<"">>, prefix |-> <<"">>, version |-> <<>>,
     keys |-> <<>>, subscripts |-> <<>>, record_length |-> <<>>]

\* the body of the loop over source.lines()
parse_line(acc, line) ==
    IF acc.state = "Eof" THEN acc
    ELSE IF starts_with_bang(line) THEN acc
    ELSE IF is_eof_marker(line) THEN [acc EXCEPT !.state = "Eof"]
    ELSE IF line = BlankLine THEN acc
    ELSE CASE acc.state = "Initial" ->
                 LET parts == splitn(line, 3)
                 IN  [acc EXCEPT !.path = part_or_default(parts, 1),
                                 !.prefix = part_or_default(parts, 2),
                                 !.version = IF 3 \in DOMAIN parts THEN parse_u32(parts[3])
                                             ELSE <<>>,
                                 !.state = "Header"]
           [] acc.state = "Header" ->
                 IF is_separator(line) THEN [acc EXCEPT !.state = "Fields"]
                 ELSE IF starts_with_recl(line)
                 THEN IF parse_recl_value(line) # <<>>
                      THEN [acc EXCEPT !.record_length = parse_recl_value(line)]
                      ELSE acc
                 ELSE LET parts == split(line)
                      IN  [acc EXCEPT !.keys =
                              Append(@, LayoutKey(parts[1],
                                                  SelectSeq(Tail(parts),
                                                            LAMBDA f : f # <<"">>)))]
           [] acc.state = "Fields" ->
                 LET parts == splitn(line, 4)
                 IN  IF Len(parts) >= 3
                     THEN [acc EXCEPT !.subscripts =
                              Append(@, LayoutSubscript(parts[1], parts[2], parts[3]))]
                     ELSE acc

\* the locals of parse after each line of the source
RECURSIVE parse_run(_, _)
parse_run(acc, lines) ==
    IF lines = <<>> THEN <<>>
    ELSE <<parse_line(acc, Head(lines))>> \o parse_run(parse_line(acc, Head(lines)), Tail(lines))

NoLayout == [no_layout |-> TRUE]

\* layout::parse
layout_parse_lines(lines) ==
    LET run == parse_run(ParseStart, lines)
        end == IF run = <<>> THEN ParseStart ELSE run[Len(run)]
    IN  IF end.path = <<"">> THEN NoLayout
        ELSE [path |-> end.path, prefix |-> end.prefix, version |-> end.version,
              keys |-> end.keys, subscripts |-> end.subscripts,
              record_length |-> end.record_length]

InitLayout ==
    /\ InitServer
    /\ args \in [fn : {"layout::parse"}, lines : LayoutSources(MaxLines)]
    /\ result = NoCall

LayoutParse ==
    Returns("layout::parse",
            [layout |-> layout_parse_lines(args.lines),
             run |-> parse_run(ParseStart, args.lines)])

NextLayout == LayoutParse

SpecLayout == InitLayout /\ [][NextLayout]_vars

StateRank == [Initial |-> 0, Header |-> 1, Fields |-> 2, Eof |-> 3]

CommentLine(line) == line[1] = "!c"

EofLine(line) == line = <<"#EOF#">> \/ line = <<"#eof#">>

SeparatorLine(line) == line = <<"---">>

ReclLine(line) == line[1] = "RECL=5"

Least(S, default) == IF S = {} THEN default ELSE CHOOSE i \in S : \A j \in S : i <= j

\* the first '#eof#' line, or past the end
EofAt(lines) == Least({i \in DOMAIN lines : EofLine(lines[i])}, Len(lines) + 1)

\* the first line that is neither blank nor a comment, or 0
FirstLine(lines) ==
    Least({i \in DOMAIN lines : ~CommentLine(lines[i]) /\ lines[i] # BlankLine}, 0)

\* the same, when it comes before every '#eof#' line and is none itself
HeaderAt(lines) == IF FirstLine(lines) < EofAt(lines) THEN FirstLine(lines) ELSE 0

\* what the claim says of a parse whose header is line h of the source (0: none)
LayoutContract(lines, run, layout, h) ==
    LET before(i) == IF i = 1 THEN ParseStart ELSE run[i - 1]
        content == {i \in DOMAIN lines : /\ i < EofAt(lines)
                                         /\ ~CommentLine(lines[i])
                                         /\ lines[i] # BlankLine}
        sep == Least({i \in content : i > h /\ h # 0 /\ SeparatorLine(lines[i])},
                     Len(lines) + 1)
        head == {i \in content : h # 0 /\ h < i /\ i < sep}
        fields == {i \in content : h # 0 /\ i > sep}
    IN  /\ \A i \in DOMAIN run : StateRank[before(i).state] <= StateRank[run[i].state]
        /\ \A i \in DOMAIN run :
              (CommentLine(lines[i]) \/ lines[i] = BlankLine) => run[i] = before(i)
        /\ h # 0 => /\ run[h].state = "Header"
                    /\ before(h).state = "Initial"
                    /\ \A i \in DOMAIN run : i >= h => run[i].path = <<lines[h][1]>>
        /\ \A i \in DOMAIN run :
              /\ (run[i].keys # before(i).keys
                     \/ run[i].record_length # before(i).record_length) => i \in head
              /\ run[i].subscripts # before(i).subscripts => i \in fields
        /\ \A i \in head :
              IF ReclLine(lines[i])
              THEN Len(lines[i]) = 1 => run[i].record_length = <<5>>
              ELSE /\ Len(run[i].keys) = Len(before(i).keys) + 1
                   /\ run[i].keys[Len(run[i].keys)].path = <<lines[i][1]>>
                   /\ Len(run[i].keys[Len(run[i].keys)].key_fields)
                         = Cardinality({k \in 2..Len(lines[i]) : lines[i][k] # ""})
        /\ \A i \in fields :
              Len(lines[i]) >= 3
                  => /\ Len(run[i].subscripts) = Len(before(i).subscripts) + 1
                     /\ run[i].subscripts[Len(run[i].subscripts)].name = <<lines[i][1]>>
        /\ \A i \in DOMAIN run : i > EofAt(lines) => run[i] = run[EofAt(lines)]
        /\ layout = layout_parse_lines(SubSeq(lines, 1, EofAt(lines) - 1))
        /\ layout = NoLayout <=> (h = 0 \/ lines[h][1] = "")

\* C25 as stated: the first non-blank, non-comment line is the header, and
\* parse returns no layout exactly when its path is empty (with forward-only
\* states, key and recl lines before the separator only, field lines after
\* it only, comments and blank lines without effect, nothing after '#eof#')
LayoutHeaderIsFirstLine ==
    result.fn = "layout::parse" =>
        LayoutContract(args.lines, result.value.run, result.value.layout,
                       FirstLine(args.lines))

\* C25: layout parsing moves forward only through Initial, Header, Fields,
\* Eof; the first non-blank, non-comment line is the header unless a '#eof#'
\* line comes first or is that line; key and recl lines count only before
\* the separator, field lines only after it; comment and blank lines change
\* nothing; no line after '#eof#' contributes; parse returns no layout
\* exactly when there is no header or its path is empty
LayoutStateMachine ==
    result.fn = "layout::parse" =>
        LayoutContract(args.lines, result.value.run, result.value.layout,
                       HeaderAt(args.lines))

\* the header, a key line, the separator and a field line were parsed into
\* a layout with one key and one field
LayoutStateMachineWitness ==
    /\ result.fn = "layout::parse"
    /\ result.value.layout # NoLayout
    /\ Len(result.value.layout.keys) = 1
    /\ Len(result.value.layout.subscripts) = 1

\* ------------------------------------------------------------------------
\* src/src/parser.rs : find_function_call_context
\* ------------------------------------------------------------------------
MaxCallLen == 6

Quote == "\""

\* an identifier character, the parentheses, the comma, the quote and a blank
CallChars == {"f", "(", ")", ",", Quote, " "}

\* the sources of at most n characters
CallSources(n) == UNION {[1..k -> CallChars] : k \in 0..n}

NoContext == [no_context |-> TRUE]

CallContext(name, active_param) == [name |-> name, active_param |-> active_param]

\* c.is_ascii_alphanumeric() || c == '_' || c == '$'
is_name_char(c) == c = "f"

\* the walk from the '(' back over the identifier
RECURSIVE name_start_of(_, _)
name_start_of(bytes, name_start) ==
    IF name_start > 0 /\ is_name_char(bytes[name_start])
    THEN name_start_of(bytes, name_start - 1)
    ELSE name_start

\* a comma counted whatever the depth
counts_comma_at_any_depth(ch, depth) == ch = ","

\* the guard of the match arm ',' if depth == 0
counts_comma(ch, depth) == ch = "," /\ depth = 0

\* while i > 0 { i -= 1; .. }: i bytes are left of the scan; bytes[i] below
\* is the Rust bytes[i - 1]
RECURSIVE scan_back(_, _, _, _, _)
scan_back(bytes, i, depth, comma_count, in_string) ==
    IF i = 0 THEN NoContext
    ELSE LET k == i - 1
             ch == bytes[i]
         IN  IF in_string
             THEN IF ch = Quote
                  THEN IF k > 0 /\ bytes[k] = Quote
                       THEN scan_back(bytes, k - 1, depth, comma_count, TRUE)
                       ELSE scan_back(bytes, k, depth, comma_count, FALSE)
                  ELSE scan_back(bytes, k, depth, comma_count, TRUE)
             ELSE IF ch = Quote THEN scan_back(bytes, k, depth, comma_count, TRUE)
             ELSE IF ch = ")" THEN scan_back(bytes, k, depth + 1, comma_count, FALSE)
             ELSE IF ch = "("
             THEN IF depth - 1 < 0
                  THEN LET name_end == k
                           name_start == name_start_of(bytes, name_end)
                       IN  IF name_start = name_end THEN NoContext
                           ELSE CallContext(SubSeq(bytes, name_start + 1, name_end),
                                            comma_count)
                  ELSE scan_back(bytes, k, depth - 1, comma_count, FALSE)
             ELSE IF counts_comma(ch, depth)
             THEN scan_back(bytes, k, depth, comma_count + 1, FALSE)
             ELSE scan_back(bytes, k, depth, comma_count, FALSE)

\* the byte offset of (row, col): the lengths of the lines before row, each
\* with its newline, plus col
call_offset(source, row, col) ==
    LET ends == {i \in DOMAIN source : source[i] = "\n"}
        before == IF row = 0 THEN 0
                  ELSE IF Cardinality(ends) >= row
                  THEN CHOOSE i \in ends : Cardinality({j \in ends : j < i}) = row - 1
                  ELSE Len(source) + 1
    IN  before + col

find_function_call_context(source, row, col) ==
    LET offset == call_offset(source, row, col)
    IN  IF offset > Len(source) THEN NoContext
        ELSE scan_back(source, offset, 0, 0, FALSE)

InitCallContext ==
    /\ InitServer
    /\ args \in UNION {[fn : {"find_function_call_context"}, source : {source},
                        row : {0}, col : {Len(source), Len(source) + 1}] :
                          source \in CallSources(MaxCallLen)}
    /\ result = NoCall

FindFunctionCallContext ==
    Returns("find_function_call_context",
            find_function_call_context(args.source, args.row, args.col))

NextCallContext == FindFunctionCallContext

SpecCallContext == InitCallContext /\ [][NextCallContext]_vars

\* reading forward: the positions that belong to string literals, and whether
\* a literal is still open at the end
RECURSIVE StringScan(_, _, _, _)
StringScan(text, i, open, inside) ==
    IF i > Len(text) THEN [open |-> open, inside |-> inside]
    ELSE IF ~open
    THEN StringScan(text, i + 1, text[i] = Quote,
                    IF text[i] = Quote THEN inside \cup {i} ELSE inside)
    ELSE IF text[i] # Quote THEN StringScan(text, i + 1, TRUE, inside \cup {i})
    ELSE IF i < Len(text) /\ text[i + 1] = Quote
    THEN StringScan(text, i + 2, TRUE, inside \cup {i, i + 1})
    ELSE StringScan(text, i + 1, FALSE, inside \cup {i})

StringsWellFormed(text) == ~StringScan(text, 1, FALSE, {}).open

InString(text) == StringScan(text, 1, FALSE, {}).inside

\* reading forward: the stack of the '(' that are not closed yet
RECURSIVE OpenParens(_, _, _)
OpenParens(text, i, stack) ==
    IF i > Len(text) THEN stack
    ELSE IF i \in InString(text) THEN OpenParens(text, i + 1, stack)
    ELSE IF text[i] = "(" THEN OpenParens(text, i + 1, Append(stack, i))
    ELSE IF text[i] = ")" /\ stack # <<>>
    THEN OpenParens(text, i + 1, SubSeq(stack, 1, Len(stack) - 1))
    ELSE OpenParens(text, i + 1, stack)

\* the commas after position p that are in no string and in no nested parentheses
TopLevelCommas(text, p) ==
    {k \in (p + 1)..Len(text) :
        /\ text[k] = ","
        /\ k \notin InString(text)
        /\ Cardinality({j \in (p + 1)..(k - 1) : text[j] = "(" /\ j \notin InString(text)})
             = Cardinality({j \in (p + 1)..(k - 1) : text[j] = ")" /\ j \notin InString(text)})}

\* the identifier that ends right before position p
NameBefore(text, p) ==
    LET from == CHOOSE a \in 1..p :
                    /\ \A j \in a..(p - 1) : text[j] = "f"
                    /\ a = 1 \/ text[a - 1] # "f"
    IN  SubSeq(text, from, p - 1)

ExpectedContext(text) ==
    LET stack == OpenParens(text, 1, <<>>)
    IN  IF stack = <<>> THEN NoContext
        ELSE LET p == stack[Len(stack)]
             IN  IF NameBefore(text, p) = <<>> THEN NoContext
                 ELSE CallContext(NameBefore(text, p),
                                  Cardinality(TopLevelCommas(text, p)))

\* C26: for a prefix with well-formed string literals the result is the
\* identifier right before the innermost unmatched '(' with the number of
\* commas after it that are outside strings and nested parentheses, and
\* nothing when there is no unmatched '(' or no identifier before it
CallContextOfPrefix ==
    (/\ result.fn = "find_function_call_context"
     /\ args.col <= Len(args.source)
     /\ StringsWellFormed(SubSeq(args.source, 1, args.col)))
        => result.value = ExpectedContext(SubSeq(args.source, 1, args.col))

\* the cursor follows a comma of a call whose string argument holds a
\* parenthesis or a comma
CallContextWitness ==
    /\ result.fn = "find_function_call_context"
    /\ args.col = Len(args.source)
    /\ StringsWellFormed(args.source)
    /\ result.value # NoContext
    /\ result.value.active_param >= 1
    /\ \E i \in InString(args.source) : args.source[i] \in {"(", ")", ","}

\* ------------------------------------------------------------------------
\* src/src/semantic_tokens.rs : encode_deltas
\* ------------------------------------------------------------------------
MaxTokens == 3

MaxTokenPos == 2

RawToken(line, start, length, token_type, modifiers) ==
    [line |-> line, start |-> start, length |-> length, token_type |-> token_type,
     modifiers |-> modifiers]

RawTokens ==
    {RawToken(line, start, 1, token_type, 0) :
        line \in 0..MaxTokenPos, start \in 0..MaxTokenPos, token_type \in {0, 1}}

\* the lists of at most n tokens
TokenLists(n) == UNION {[1..k -> RawTokens] : k \in 0..n}

\* a.line.cmp(&b.line).then(a.start.cmp(&b.start)) is Less or Equal
cmp_line_start(a, b) == a.line < b.line \/ (a.line = b.line /\ a.start <= b.start)

\* the tokens left in the order they were collected
sort_skipped(tokens) == tokens

\* tokens.sort_by(..) : a stable sort
RECURSIVE sort_by_line_start(_)
sort_by_line_start(tokens) ==
    IF tokens = <<>> THEN <<>>
    ELSE LET first == CHOOSE i \in DOMAIN tokens :
                         \A j \in DOMAIN tokens :
                             /\ cmp_line_start(tokens[i], tokens[j])
                             /\ cmp_line_start(tokens[j], tokens[i]) => i <= j
         IN  <<tokens[first]>>
             \o sort_by_line_start([k \in 1..(Len(tokens) - 1) |->
                                       IF k < first THEN tokens[k] ELSE tokens[k + 1]])

\* the subtraction of two u32: a negative number stands for the wrapped
\* value (that number plus 2^32) of a release build; a debug build panics
u32_sub(a, b) == a - b

SemanticToken(delta_line, delta_start, length, token_type, token_modifiers_bitset) ==
    [delta_line |-> delta_line, delta_start |-> delta_start, length |-> length,
     token_type |-> token_type, token_modifiers_bitset |-> token_modifiers_bitset]

\* the loop of encode_deltas over the sorted tokens
RECURSIVE delta_loop(_, _, _)
delta_loop(tokens, prev_line, prev_start) ==
    IF tokens = <<>> THEN <<>>
    ELSE LET tok == Head(tokens)
             delta_line == u32_sub(tok.line, prev_line)
             delta_start == IF delta_line = 0 THEN u32_sub(tok.start, prev_start)
                            ELSE tok.start
         IN  <<SemanticToken(delta_line, delta_start, tok.length, tok.token_type,
                             tok.modifiers)>>
             \o delta_loop(Tail(tokens), tok.line, tok.start)

\* encode_deltas: the slice as it is left, and the returned vector
encode_deltas(tokens) ==
    LET sorted == sort_by_line_start(tokens)
    IN  [tokens |-> sorted, result |-> delta_loop(sorted, 0, 0)]

InitEncode ==
    /\ InitServer
    /\ args \in [fn : {"encode_deltas"}, tokens : TokenLists(MaxTokens)]
    /\ result = NoCall

EncodeDeltas == Returns("encode_deltas", encode_deltas(args.tokens))

NextEncode == EncodeDeltas

SpecEncode == InitEncode /\ [][NextEncode]_vars

\* what a client reads from the encoded tokens, by cumulative sums
RECURSIVE Decode(_, _, _)
Decode(encoded, line, start) ==
    IF encoded = <<>> THEN <<>>
    ELSE LET e == Head(encoded)
             l == line + e.delta_line
             c == IF e.delta_line = 0 THEN start + e.delta_start ELSE e.delta_start
         IN  <<RawToken(l, c, e.length, e.token_type, e.token_modifiers_bitset)>>
             \o Decode(Tail(encoded), l, c)

Occurrences(seq, x) == Cardinality({i \in DOMAIN seq : seq[i] = x})

\* C27: encode_deltas leaves the tokens sorted by (line, start column),
\* decoding its output by cumulative sums gives back the sorted tokens, and
\* no subtraction underflows
EncodeDeltasRoundTrip ==
    result.fn = "encode_deltas" =>
        LET sorted == result.value.tokens
            encoded == result.value.result
        IN  /\ Len(sorted) = Len(args.tokens)
            /\ \A tok \in RawTokens : Occurrences(sorted, tok) = Occurrences(args.tokens, tok)
            /\ \A i \in DOMAIN sorted, j \in DOMAIN sorted :
                  i < j => \/ sorted[i].line < sorted[j].line
                           \/ /\ sorted[i].line = sorted[j].line
                              /\ sorted[i].start <= sorted[j].start
            /\ Decode(encoded, 0, 0) = sorted
            /\ \A i \in DOMAIN encoded :
                  encoded[i].delta_line >= 0 /\ encoded[i].delta_start >= 0

\* three tokens given out of order, two of them on one line
EncodeDeltasWitness ==
    /\ result.fn = "encode_deltas"
    /\ Len(args.tokens) = 3
    /\ args.tokens # result.value.tokens
    /\ \E i \in DOMAIN result.value.result :
          /\ i > 1
          /\ result.value.result[i].delta_line = 0
          /\ result.value.result[i].delta_start > 0
    /\ \E i \in DOMAIN result.value.result : result.value.result[i].delta_line > 0

\* ------------------------------------------------------------------------
\* did_close and the debounced diagnostics task
\* ------------------------------------------------------------------------
\* the place of the last empty list did_close published for u (0: none)
LastClosePublication(u) ==
    LET at == {i \in DOMAIN published : published[i].uri = u /\ published[i].origin = "did_close"}
    IN  IF at = {} THEN 0 ELSE CHOOSE i \in at : \A j \in at : j <= i

\* C28: while a URI is closed, no publication of a debounced diagnostics task
\* follows the empty list that did_close published for it
NoDebouncedPublishAfterClose ==
    \A u \in DocUris :
        (hist[u].closed /\ ~hist[u].open /\ LastClosePublication(u) # 0)
            => \A j \in DOMAIN published :
                  j > LastClosePublication(u)
                      => ~(published[j].uri = u /\ published[j].origin = "debounced")

\* ------------------------------------------------------------------------
\* The startup scan of a file that is also opened
\* ------------------------------------------------------------------------
\* scan_workspace_folder finds the open document's file and the library
OpenFileScans ==
    {<<[uri |-> UriA, defs |-> DiskDefs]>>,
     <<[uri |-> UriA, defs |-> DiskDefs], [uri |-> UriLib, defs |-> DiskDefs]>>}

\* the document as it is on the disk, and an edit that retypes its DEF
OnDiskTexts == {<<"d">>}

OnDiskChanges == {<<[range |-> <<0, 0, 0, 1>>, text |-> <<"d">>]>>}

NextScanOpen ==
    \/ \E text \in OnDiskTexts : DidOpen(UriA, text, "br", TRUE)
    \/ \E changes \in OnDiskChanges : DidChange(UriA, changes, TRUE)
    \/ DidClose(UriA)
    \/ Initialized
    \/ EditTaskStep
    \/ \E t \in TaskIds, resp \in StartupResponses : InitializedPull(t, resp)
    \/ \E t \in TaskIds, files \in OpenFileScans : ScanIndex(t, files)
    \/ \E t \in TaskIds, layouts \in DiskLayouts : ScanLayouts(t, layouts)
    \/ \E t \in TaskIds : ScanComplete(t)
    \/ \E t \in TaskIds, order \in Perms(WithTree) : ScanSnapshot(t, order)
    \/ \E t \in TaskIds : RepublishNext(t)
    \/ Tick

SpecScanOpen == Init /\ [][NextScanOpen]_vars

\* the number of entries the index holds for a URI
RECURSIVE EntryCount(_, _, _)
EntryCount(idx, u, keys) ==
    IF keys = {} THEN 0
    ELSE LET key == CHOOSE k \in keys : TRUE
         IN  Len(EntriesOf(idx, u, key)) + EntryCount(idx, u, keys \ {key})

\* C29: the index never holds more entries for a URI than the latest
\* extraction for it has definitions, whatever the order of the scan's
\* add_file and the update_file calls of did_open and the debounced tasks
NoDuplicateEntries ==
    \A u \in AllUris : EntryCount(definitions, u, DOMAIN definitions) <= Len(latest[u])

\* ------------------------------------------------------------------------
\* backend.rs : execute_command (br-lsp.scanAll)
\* ------------------------------------------------------------------------
\* what read_br_file finds for the files of the workspace: the open
\* document's file holds a call that the buffer no longer has
DiskFile(uri, text, ok) == [uri |-> uri, text |-> text, ok |-> ok]

ScanAllFiles ==
    {<<DiskFile(UriA, <<"c">>, TRUE)>>,
     <<DiskFile(UriA, <<"c">>, FALSE)>>,
     <<DiskFile(UriLib, <<"d">>, TRUE), DiskFile(UriA, <<"c">>, TRUE)>>}

\* scan_workspace_diagnostics: the diagnostics of every file that parses
RECURSIVE scan_workspace_diagnostics(_, _)
scan_workspace_diagnostics(files, config) ==
    IF files = <<>> THEN <<>>
    ELSE LET f == Head(files)
             tree == parse(f.text, f.ok)
             rest == scan_workspace_diagnostics(Tail(files), config)
         IN  IF tree = NoTree THEN rest
             ELSE <<Publication(f.uri, "scan_all", 0, f.text,
                                collect_all_diagnostics(tree, f.text, config, NoIndex),
                                FALSE)>> \o rest

\* execute_command("br-lsp.scanAll") up to its first await
ExecuteCommand ==
    /\ UNCHANGED <<lockVars, callVars>>
    /\ notifications < MaxNotifications
    /\ tasks' = Spawned(Task("execute_command", "sa_scan", WorkspaceFolder, <<>>, NoTree, 0, 0))
    /\ notifications' = notifications + 1
    /\ UNCHANGED <<indexVars, document_map, layout_index, indexing_complete,
                   diagnostics_generation, diagnostics_config, published, hist>>

\* the command with the folders and the configuration cloned: the blocking
\* scan returns the results that the loop of publishes goes through
ScanAllResults(t, files) ==
    /\ UNCHANGED <<lockVars, callVars>>
    /\ t \in DOMAIN tasks
    /\ tasks[t].pc = "sa_scan"
    /\ tasks' = ToPublish(t, scan_workspace_diagnostics(files, diagnostics_config))
    /\ UNCHANGED <<indexVars, document_map, layout_index, indexing_complete,
                   diagnostics_generation, diagnostics_config, published, notifications, hist>>

\* an open document with unsaved edits, the command and a configuration change
NextScanAll ==
    \/ \E text \in OnDiskTexts : DidOpen(UriA, text, "br", TRUE)
    \/ \E changes \in OnDiskChanges : DidChange(UriA, changes, TRUE)
    \/ DidClose(UriA)
    \/ ExecuteCommand
    \/ \E t \in TaskIds, files \in ScanAllFiles : ScanAllResults(t, files)
    \/ \E t \in TaskIds : RepublishNext(t)
    \/ DidChangeConfiguration
    \/ ConfigTaskStep
    \/ EditTaskStep
    \/ Tick

SpecScanAll == Init /\ [][NextScanAll]_vars

\* this step makes a publish_diagnostics call for a document that is open
PublishesForOpen(u) ==
    /\ Len(published') = Len(published) + 1
    /\ published'[Len(published')].uri = u
    /\ u \in DOMAIN document_map'

\* C30: every publish_diagnostics call for a URI that is open in the
\* document map carries diagnostics computed from the buffer of that
\* document, the calls of br-lsp.scanAll and of the republish passes included
PublishFromBuffer ==
    [][\A u \in DocUris :
          PublishesForOpen(u)
              => published'[Len(published')].source = document_map'[u].source]_vars

====
